---- MODULE Spec2Model ----
(***************************************************************************)
(* A model of the NHL trading bot: the odds / price stores and the value   *)
(* engine of OddsComparison.js, and the position lifecycle of              *)
(* TradingBot.js (src/unnamed/part_001) with its asynchronous order calls. *)
(*                                                                         *)
(* JavaScript runs each handler to its first `await` without interruption, *)
(* so one action is one synchronous run: a feed handler, a timer tick, a   *)
(* CLI command, or the continuation of an async function after the remote  *)
(* call it awaited has returned or failed.  The calls in flight are the    *)
(* bag `tasks`.                                                            *)
(*                                                                         *)
(* Numbers: a price or a probability is kept in percent (0.60 is 60), an   *)
(* edge ("value") as an exact fraction <<num, den>>; the clock is in       *)
(* milliseconds, as Date.now() is, and advances by whole hours.            *)
(***************************************************************************)
EXTENDS Integers, Sequences, FiniteSets, Bags, TLC

----------------------------------------------------------------------------
(* Bounds of the model *)

\* the clock stops after this many hours
MaxHours == 3
\* at most this many order flows (buys and sells) are started in a run
MaxOrders == 3
MaxCapOrders == 2

----------------------------------------------------------------------------
(* Program constants *)

\* config.MAX_POSITION_SIZE, default 100
maxPositionSize == 100
\* config.MIN_VALUE_THRESHOLD, default 0.05, in percent
valueThreshold == 5
\* calculateConfidence: value > 0.15 is high, in percent
HighValue == 15
\* calculateConfidence: value > 0.1 is medium, in percent
MediumValue == 10
\* executeBuyOrder: maxPositionSize * 0.1, as a divisor
PerTradeDivisor == 10
\* executeBuyOrder: at most $50 a trade
PerTradeCeiling == 50
\* checkAutoSellConditions: hoursHeld > 2
AutoSellHours == 2
\* startPeriodicCleanup: clearOldData(60)
CleanupMaxAgeMinutes == 60
\* compareMarkets: polyData.price || 0.5, in percent
DefaultPrice == 50

MsPerHour == 1000 * 60 * 60

\* Math.min
Min(a, b) == IF a < b THEN a ELSE b

\* faulty variant: every trade is of the $50 ceiling
positionSizeAtCeiling == PerTradeCeiling

\* the per-trade amount of executeBuyOrder
positionSize ==
    Min(maxPositionSize \div PerTradeDivisor, PerTradeCeiling)

\* how many positions of positionSize fill the portfolio cap
CapSlots == maxPositionSize \div positionSize

----------------------------------------------------------------------------
(* Inputs *)

\* instrument identifiers of the price feed
Tokens == 1 .. (CapSlots + 1)
\* the instruments the environment of the base specification prices and sells
TradeTokens == {1}

Outcome(name, odds, target) ==
    [outcome_name |-> name, odds |-> odds, outcome_target |-> target]

\* feed frames (the `data` of initial_state / game_update / line_update /
\* game_added): American odds -400 imply 80%, -213 imply 68%
FrameAHigh ==
    [sport |-> "NHL", home_team |-> "BOS", away_team |-> "NYR", game |-> "G1",
     outcomes |-> << Outcome("Moneyline", 150, "NYR"),
                     Outcome("Moneyline", -400, "BOS"),
                     Outcome("Spread", -900, "BOS") >>]
FrameBLow ==
    [sport |-> "NHL", home_team |-> "TOR", away_team |-> "MTL", game |-> "G2",
     outcomes |-> << Outcome("Moneyline", -213, "TOR") >>]

\* the frames of the base specification: game G1 trades, game G2 is low
TradeFrames == {FrameAHigh, FrameBLow}

\* marketData of updatePolymarketData: price is a set, empty when the field
\* is missing
MarketData(p) == [price |-> {p}]
TradePrices == {MarketData(60)}

\* an order book as getOrderbook returns it: best price first on each side
EmptyBook == [asks |-> << >>, bids |-> << >>]
FullBook == [asks |-> << 62 >>, bids |-> << 58 >>]
Books == {EmptyBook, FullBook}

\* amount argument of sellPosition: 0 stands for null (sell all)
FullSellOnly == {0}

\* how far the clock moves in one step of the base specification
LongWait == {3 * MsPerHour}
\* and in one step of the auto-sell specification
ShortWait == {MsPerHour}

----------------------------------------------------------------------------
VARIABLES
    now,              \* Date.now(), in ms
    boltOddsData,     \* OddsComparison.boltOddsData: Map in insertion order
    polymarketData,   \* OddsComparison.polymarketData: Map in insertion order
    positionObjects,  \* every position object executeBuyOrder has created
    activePositions,  \* TradingBot.activePositions: tokenId -> object, 0 if none
    tradingHistory,   \* TradingBot.tradingHistory
    tasks,            \* async order flows suspended at an await
    orderBudget,      \* order flows the run may still start (model bound)
    lastLog,          \* what the last step logged
    autoSellEnabled,  \* config.AUTO_SELL_ENABLED
    isRunning,        \* TradingBot.isRunning
    exited,           \* process.exit has been called
    ws,               \* BoltOddsClient.ws: "null", or the state of the socket
    isConnected,      \* BoltOddsClient.isConnected
    reconnectAttempts,    \* BoltOddsClient.reconnectAttempts
    reconnectTimers,      \* pending setTimeout callbacks of handleReconnection
    subscriptionFilters,  \* BoltOddsClient.subscriptionFilters
    sent,             \* what has been sent on the current socket
    frameSeen,        \* an inbound frame of the current socket was handled
    messageHandlers,  \* BoltOddsClient.messageHandlers: event -> handlers
    delivered,        \* the handler calls of the last step, in order
    closeRequested,   \* BoltOddsClient.close has been called
    foundMatches,     \* what findMatchingMarkets returned in the last step
    foundValues,      \* what calculateValue returned for each of them
    foundOpportunities,   \* what findTradingOpportunities returned
    converted         \* the odds conversions of the last step

feedVars == << ws, isConnected, reconnectAttempts, reconnectTimers,
               subscriptionFilters, sent, frameSeen, messageHandlers,
               delivered, closeRequested >>

oddsVars == << foundMatches, foundValues, foundOpportunities, converted >>

vars == << now, boltOddsData, polymarketData, positionObjects, activePositions,
           tradingHistory, tasks, orderBudget, lastLog, autoSellEnabled,
           isRunning, exited, feedVars, oddsVars >>

storeVars == << boltOddsData, polymarketData >>

\* no result of a query is on display
NoResults ==
    /\ foundMatches = << >>
    /\ foundValues = << >>
    /\ foundOpportunities = << >>
    /\ converted = << >>

\* a step that is no query takes its results off display
ResetResults ==
    /\ foundMatches' = << >>
    /\ foundValues' = << >>
    /\ foundOpportunities' = << >>
    /\ converted' = << >>
ledgerVars == << positionObjects, activePositions, tradingHistory >>

----------------------------------------------------------------------------
(* OddsComparison.js *)

\* a Map kept as the sequence of its entries in insertion order
MapHas(m, k) == \E i \in 1 .. Len(m) : m[i].key = k
MapIndex(m, k) == CHOOSE i \in 1 .. Len(m) : m[i].key = k
MapSet(m, entry) ==
    IF MapHas(m, entry.key)
    THEN [m EXCEPT ![MapIndex(m, entry.key)] = entry]
    ELSE Append(m, entry)

\* a property read: undefined when the object has no such field
Field(obj, name) == IF name \in DOMAIN obj THEN obj[name] ELSE "undefined"

createGameKey(gameData) ==
    Field(gameData, "sport") \o "_" \o Field(gameData, "home_team") \o "_"
        \o Field(gameData, "away_team") \o "_" \o Field(gameData, "game")

updateBoltOddsData(m, gameData) ==
    MapSet(m, [key |-> createGameKey(gameData), data |-> gameData,
               timestamp |-> now])

updatePolymarketData(m, tokenId, marketData) ==
    MapSet(m, [key |-> tokenId, data |-> marketData, timestamp |-> now])

\* decimal odds as the fraction <<num, den>>
americanToDecimal(a) ==
    IF a > 0 THEN << a + 100, 100 >> ELSE << 100 + (0 - a), 0 - a >>

\* Math.round of p / q for q > 0: halves go up
Round(p, q) == (2 * p + q) \div (2 * q)

\* decimalToAmerican with even odds (2.0) taken as a favourite
decimalToAmericanEvenAsFavourite(d) ==
    IF d[1] > 2 * d[2]
    THEN Round((d[1] - d[2]) * 100, d[2])
    ELSE Round((0 - 100) * d[2], d[1] - d[2])

\* decimalToAmerican of the decimal odds d[1] / d[2], which exceed 1
decimalToAmerican(d) ==
    IF d[1] >= 2 * d[2]
    THEN Round((d[1] - d[2]) * 100, d[2])
    ELSE Round((0 - 100) * d[2], d[1] - d[2])

\* 1 / decimalOdds
calculateImpliedProbability(a) ==
    << americanToDecimal(a)[2], americanToDecimal(a)[1] >>

\* null (FALSE here) outside the open interval (0, 1)
PriceInRange(p) == ~ (p <= 0 \/ p >= 100)

extractGameInfo(entry) ==
    [sport |-> entry.data.sport, homeTeam |-> entry.data.home_team,
     awayTeam |-> entry.data.away_team, game |-> entry.data.game]

IsMoneyline(o) == o.outcome_name = "Moneyline" /\ o.odds # 0

\* every outcome of the snapshot, whatever its market
findAllOutcomes(entry) ==
    entry.data.outcomes

findMoneylineOutcomes(entry) ==
    SelectSeq(entry.data.outcomes, IsMoneyline)

\* polyData.price || 0.5
PriceOrDefault(marketData) ==
    IF marketData.price = {} \/ marketData.price = {0}
    THEN DefaultPrice
    ELSE CHOOSE p \in marketData.price : TRUE

NoMatch == [matched |-> FALSE]

compareMarkets(bolt, poly) ==
    LET gameInfo == extractGameInfo(bolt)
        moneylineOutcomes == findMoneylineOutcomes(bolt)
        polymarketPrice == PriceOrDefault(poly.data)
    IN  IF gameInfo.sport # "NHL" THEN NoMatch
        ELSE IF Len(moneylineOutcomes) = 0 THEN NoMatch
        ELSE [matched |-> TRUE,
              gameKey |-> bolt.key,
              tokenId |-> poly.key,
              gameInfo |-> gameInfo,
              boltOdds |-> moneylineOutcomes,
              price |-> polymarketPrice,
              hasDecimalOdds |-> PriceInRange(polymarketPrice)]

IsMatch(c) == c.matched

\* the pairs in the order of the two nested loops
findMatchingMarkets(bolt, poly) ==
    LET n == Len(bolt)
        m == Len(poly)
        pair(k) == compareMarkets(bolt[((k - 1) \div m) + 1],
                                  poly[((k - 1) % m) + 1])
    IN  SelectSeq([k \in 1 .. n * m |-> pair(k)], IsMatch)

\* outcome.impliedProbability - (1 / polymarket.decimalOdds), as a fraction
OutcomeValue(o, price) ==
    LET ip == calculateImpliedProbability(o.odds)
    IN  << 100 * ip[1] - price * ip[2], 100 * ip[2] >>

\* v > pct / 100
ValueAbove(v, pct) == 100 * v[1] > pct * v[2]
\* v > w
ValueGreater(v, w) == v[1] * w[2] > w[1] * v[2]

\* the tiers with their lower bounds included
calculateConfidenceInclusive(v) ==
    IF 100 * v[1] >= HighValue * v[2] THEN "high"
    ELSE IF 100 * v[1] >= MediumValue * v[2] THEN "medium"
    ELSE "low"

calculateConfidence(v) ==
    IF ValueAbove(v, HighValue) THEN "high"
    ELSE IF ValueAbove(v, MediumValue) THEN "medium"
    ELSE "low"

\* the loop with `value >= bestValue`: of equal values the last one wins
RECURSIVE BestOutcomeLastOfTies(_, _, _, _)
BestOutcomeLastOfTies(outs, price, i, best) ==
    IF i > Len(outs) THEN best
    ELSE LET v == OutcomeValue(outs[i], price)
             take == /\ ValueAbove(v, valueThreshold)
                     /\ \/ best = 0
                        \/ ~ ValueGreater(OutcomeValue(outs[best], price), v)
         IN  BestOutcomeLastOfTies(outs, price, i + 1,
                                   IF take THEN i ELSE best)

\* the loop of calculateValue: the index of the best outcome so far, 0 if none
RECURSIVE BestOutcome(_, _, _, _)
BestOutcome(outs, price, i, best) ==
    IF i > Len(outs) THEN best
    ELSE LET v == OutcomeValue(outs[i], price)
             take == /\ ValueAbove(v, valueThreshold)
                     /\ \/ best = 0
                        \/ ValueGreater(v, OutcomeValue(outs[best], price))
         IN  BestOutcome(outs, price, i + 1, IF take THEN i ELSE best)

NoValue == [found |-> FALSE]

calculateValue(c) ==
    IF Len(c.boltOdds) = 0 \/ ~ c.hasDecimalOdds THEN NoValue
    ELSE LET b == BestOutcome(c.boltOdds, c.price, 1, 0)
             v == OutcomeValue(c.boltOdds[b], c.price)
         IN  IF b = 0 THEN NoValue
             ELSE [found |-> TRUE, value |-> v, outcome |-> c.boltOdds[b],
                   confidence |-> calculateConfidence(v)]

\* a match with its value analysis, as findTradingOpportunities pushes it
Opportunity(c, va) ==
    [gameKey |-> c.gameKey, tokenId |-> c.tokenId, gameInfo |-> c.gameInfo,
     valueAnalysis |-> [value |-> va.value, confidence |-> va.confidence]]

\* Array.prototype.sort with (a, b) => b.value - a.value: stable, descending
RECURSIVE InsertByValue(_, _)
InsertByValue(sorted, x) ==
    IF sorted = << >> THEN << x >>
    ELSE IF ValueGreater(x.valueAnalysis.value, Head(sorted).valueAnalysis.value)
         THEN << x >> \o sorted
         ELSE << Head(sorted) >> \o InsertByValue(Tail(sorted), x)

\* the opportunities left in the order of the matches
Unsorted(s) ==
    s

RECURSIVE SortByValue(_)
SortByValue(s) ==
    IF s = << >> THEN << >>
    ELSE InsertByValue(SortByValue(SubSeq(s, 1, Len(s) - 1)), s[Len(s)])

\* the loop of findTradingOpportunities: the matches that have a value
RECURSIVE Valued(_, _)
Valued(matches, i) ==
    IF i > Len(matches) THEN << >>
    ELSE (IF calculateValue(matches[i]).found
          THEN << Opportunity(matches[i], calculateValue(matches[i])) >>
          ELSE << >>)
         \o Valued(matches, i + 1)

findTradingOpportunities(bolt, poly) ==
    SortByValue(Valued(findMatchingMarkets(bolt, poly), 1))

\* clearOldData that also deletes an entry exactly at the cutoff
clearOldDataAtCutoff(m, maxAgeMinutes) ==
    LET cutoffTime == now - (maxAgeMinutes * 60 * 1000)
        Keep(e) == ~ (e.timestamp <= cutoffTime)
    IN  SelectSeq(m, Keep)

\* the entries clearOldData keeps
clearOldData(m, maxAgeMinutes) ==
    LET cutoffTime == now - (maxAgeMinutes * 60 * 1000)
        Keep(e) == ~ (e.timestamp < cutoffTime)
    IN  SelectSeq(m, Keep)

----------------------------------------------------------------------------
(* TradingBot.js: the synchronous part of each operation *)

NoOpportunity == [gameKey |-> "", tokenId |-> 0, gameInfo |-> [sport |-> ""],
                  valueAnalysis |-> NoValue]

\* a line of the log: the message, the token it is about (0: none), a detail
Log(msg, tokenId, detail) == [msg |-> msg, tokenId |-> tokenId, detail |-> detail]

RECURSIVE SumAmounts(_, _, _)
SumAmounts(objs, active, S) ==
    IF S = {} THEN 0
    ELSE LET t == CHOOSE x \in S : TRUE
         IN  objs[active[t]].amount + SumAmounts(objs, active, S \ {t})

getTotalPositionValue ==
    SumAmounts(positionObjects, activePositions,
               {t \in Tokens : activePositions[t] # 0})

\* faulty variant: the check for an existing position is missing
evaluateOpportunityIgnoringPosition(opp) ==
    IF getTotalPositionValue >= maxPositionSize THEN "cap"
    ELSE IF opp.valueAnalysis.confidence = "high"
            \/ opp.valueAnalysis.confidence = "medium" THEN "buy"
    ELSE "skip"

\* faulty variant: the cap is compared with > instead of >=
evaluateOpportunityPastCap(opp) ==
    IF activePositions[opp.tokenId] # 0 THEN "has"
    ELSE IF getTotalPositionValue > maxPositionSize THEN "cap"
    ELSE IF opp.valueAnalysis.confidence = "high"
            \/ opp.valueAnalysis.confidence = "medium" THEN "buy"
    ELSE "skip"

\* faulty variant: the confidence is not looked at
evaluateOpportunityAnyConfidence(opp) ==
    IF activePositions[opp.tokenId] # 0 THEN "has"
    ELSE IF getTotalPositionValue >= maxPositionSize THEN "cap"
    ELSE "buy"

\* evaluateOpportunity up to its call of executeBuyOrder
evaluateOpportunity(opp) ==
    IF activePositions[opp.tokenId] # 0 THEN "has"
    ELSE IF getTotalPositionValue >= maxPositionSize THEN "cap"
    ELSE IF opp.valueAnalysis.confidence = "high"
            \/ opp.valueAnalysis.confidence = "medium" THEN "buy"
    ELSE "skip"

\* executeBuyOrder suspended at `await getOrderbook`
BuyTask(opp) ==
    [kind |-> "buy", tokenId |-> opp.tokenId, pc |-> "book", price |-> 0,
     amount |-> positionSize, position |-> 0, origin |-> "auto",
     opportunity |-> opp]

\* sellPosition suspended at `await getOrderbook`: amount 0 is null
SellTask(tokenId, amount, origin) ==
    [kind |-> "sell", tokenId |-> tokenId, pc |-> "book", price |-> 0,
     amount |-> IF amount = 0
                THEN positionObjects[activePositions[tokenId]].amount
                ELSE amount,
     position |-> activePositions[tokenId], origin |-> origin,
     opportunity |-> NoOpportunity]

\* the loop of checkTradingOpportunities: the buys it starts, `did` being
\* what evaluateOpportunity did with each opportunity
RECURSIVE StartedBuys(_, _, _)
StartedBuys(opps, did, i) ==
    IF i > Len(opps) THEN EmptyBag
    ELSE (IF did[i] = "buy" THEN SetToBag({BuyTask(opps[i])}) ELSE EmptyBag)
         (+) StartedBuys(opps, did, i + 1)

OpportunityLog(opps, did) ==
    {Log("Already have position in token", opps[i].tokenId, "") :
        i \in {j \in 1 .. Len(opps) : did[j] = "has"}}
    \cup {Log("Maximum position size reached", 0, "") :
        i \in {j \in 1 .. Len(opps) : did[j] = "cap"}}

\* faulty variant: a position held for exactly two hours is sold as well
AutoSellDueAtThreshold ==
    {t \in Tokens :
        /\ activePositions[t] # 0
        /\ now - positionObjects[activePositions[t]].buyTime
               >= AutoSellHours * MsPerHour}

\* checkAutoSellConditions: the positions held for more than two hours
AutoSellDue ==
    {t \in Tokens :
        /\ activePositions[t] # 0
        /\ now - positionObjects[activePositions[t]].buyTime
               > AutoSellHours * MsPerHour}

RECURSIVE StartedSells(_)
StartedSells(S) ==
    IF S = {} THEN EmptyBag
    ELSE LET t == CHOOSE x \in S : TRUE
         IN  SetToBag({SellTask(t, 0, "auto")}) (+) StartedSells(S \ {t})

AutoSellLog == {Log("Auto-sold position due to time limit", t, "") : t \in AutoSellDue}

\* the objects still referenced: by the active map or by a suspended sell
Referenced(active, tsk) ==
    {active[t] : t \in Tokens} \cup {k.position : k \in BagToSet(tsk)}

Collect(objs, active, tsk) ==
    [id \in (DOMAIN objs) \cap Referenced(active, tsk) |-> objs[id]]

\* what evaluateOpportunity does with each opportunity of the pass
RECURSIVE Evaluated(_, _)
Evaluated(opps, i) ==
    IF i > Len(opps) THEN << >>
    ELSE << evaluateOpportunity(opps[i]) >> \o Evaluated(opps, i + 1)

\* the flows a pass starts and what it logs
Started(opps, did, sells, logged) ==
    /\ BagCardinality(StartedBuys(opps, did, 1) (+) sells) <= orderBudget
    /\ tasks' = tasks (+) StartedBuys(opps, did, 1) (+) sells
    /\ orderBudget' = orderBudget
                        - BagCardinality(StartedBuys(opps, did, 1) (+) sells)
    /\ lastLog' = logged \cup OpportunityLog(opps, did)
                    \cup (IF autoSellEnabled THEN AutoSellLog ELSE {})

Pass(opps, logged) ==
    Started(opps, Evaluated(opps, 1),
            IF autoSellEnabled THEN StartedSells(AutoSellDue) ELSE EmptyBag,
            logged)

\* faulty variant: the pass reads the odds store as it was before the
\* handler's ingest
CheckAndSweepBeforeIngest(bolt, logged) ==
    Pass(findTradingOpportunities(boltOddsData, polymarketData), logged)

\* checkTradingOpportunities, then checkAutoSellConditions if enabled, on the
\* odds store `bolt`; `logged` is what the handler has logged before
CheckAndSweep(bolt, logged) ==
    Pass(findTradingOpportunities(bolt, polymarketData), logged)

----------------------------------------------------------------------------
(* BoltOddsClient *)

maxReconnectAttempts == 10

\* subscriptionFilters as the constructor sets them
DefaultFilters ==
    [sports |-> << "NHL" >>, sportsbooks |-> << >>, games |-> << >>,
     markets |-> << "Moneyline", "Spread", "Total" >>]

\* the arguments updateSubscription is called with
FilterUpdates == {[games |-> << "G1" >>], [sportsbooks |-> << "dk" >>]}

\* faulty variant: the new filters replace the old ones
ReplaceFilters(old, new) ==
    [f \in DOMAIN old \cup DOMAIN new |->
        IF f \in DOMAIN new THEN new[f] ELSE << >>]

\* {...this.subscriptionFilters, ...newFilters}
MergeFilters(old, new) ==
    [f \in DOMAIN old \cup DOMAIN new |->
        IF f \in DOMAIN new THEN new[f] ELSE old[f]]

\* the request subscribe and updateSubscription send
SubscribeRequest(filters) == [action |-> "subscribe", filters |-> filters]

\* a message without a `data` field
NoData == [missing |-> TRUE]

\* inbound text that JSON.parse rejects
Malformed == [malformed |-> TRUE]

Inbound(action, data) == [action |-> action, data |-> data]

\* a switch whose default case treats the message as a game update
EventOfUnknownAsUpdate(action) ==
    CASE action = "initial_state" -> "initialState"
      [] action = "game_removed" -> "gameRemoved"
      [] action = "game_added" -> "gameAdded"
      [] action = "line_update" -> "lineUpdate"
      [] action = "book_clear" -> "bookClear"
      [] action = "error" -> "error"
      [] action = "subscription_updated" -> "subscriptionUpdated"
      [] action \in {"socket_connected", "ping"} -> ""
      [] OTHER -> "gameUpdate"

\* the switch of handleMessage: the event a message is emitted as, "" if none
EventOf(action) ==
    CASE action = "initial_state" -> "initialState"
      [] action = "game_update" -> "gameUpdate"
      [] action = "game_removed" -> "gameRemoved"
      [] action = "game_added" -> "gameAdded"
      [] action = "line_update" -> "lineUpdate"
      [] action = "book_clear" -> "bookClear"
      [] action = "error" -> "error"
      [] action = "subscription_updated" -> "subscriptionUpdated"
      [] OTHER -> ""

Events ==
    {"initialState", "gameUpdate", "gameRemoved", "gameAdded", "lineUpdate",
     "bookClear", "error", "subscriptionUpdated"}

\* the events TradingBot.setupEventHandlers registers a handler for
BotEvents ==
    {"initialState", "gameUpdate", "lineUpdate", "gameAdded", "gameRemoved",
     "error"}

\* the events whose handler calls handleBoltOddsUpdate
UpdateEvents == {"initialState", "gameUpdate", "lineUpdate", "gameAdded"}

\* messageHandlers once the bot is constructed; "bot" is the bot's handler
BotHandlers == [e \in Events |-> IF e \in BotEvents THEN << "bot" >> ELSE << >>]

\* handlers registered besides the bot's: one that returns, one that throws
OtherHandlers == {"probe", "faulty"}

\* whether a handler throws: the bot's gameAdded and gameRemoved handlers
\* read data.game before anything else
Throws(handler, event, data) ==
    \/ handler = "faulty"
    \/ handler = "bot" /\ event \in {"gameAdded", "gameRemoved"}
                       /\ data = NoData

Call(handler, event, data) ==
    [handler |-> handler, event |-> event, data |-> data,
     threw |-> Throws(handler, event, data)]

\* a loop over the handlers without a try around the call: it ends at the
\* first handler that throws
RECURSIVE InvokeUntilThrow(_, _, _)
InvokeUntilThrow(handlers, event, data) ==
    IF handlers = << >> THEN << >>
    ELSE IF Throws(Head(handlers), event, data)
         THEN << Call(Head(handlers), event, data) >>
         ELSE << Call(Head(handlers), event, data) >>
                  \o InvokeUntilThrow(Tail(handlers), event, data)

emitUntilThrow(event, data) ==
    InvokeUntilThrow(messageHandlers[event], event, data)

\* faulty variant: every handler is called twice
RECURSIVE InvokeEachTwice(_, _, _)
InvokeEachTwice(handlers, event, data) ==
    IF handlers = << >> THEN << >>
    ELSE << Call(Head(handlers), event, data),
            Call(Head(handlers), event, data) >>
             \o InvokeEachTwice(Tail(handlers), event, data)

\* handlers.forEach with the try/catch around each call
RECURSIVE Invoke(_, _, _)
Invoke(handlers, event, data) ==
    IF handlers = << >> THEN << >>
    ELSE << Call(Head(handlers), event, data) >>
             \o Invoke(Tail(handlers), event, data)

\* emit(event, data): the calls it makes, in order
emit(event, data) ==
    Invoke(messageHandlers[event], event, data)

\* an exception left emit: a call threw and the loop ended there
Escaped(event, calls) ==
    /\ calls # << >>
    /\ calls[Len(calls)].threw
    /\ Len(calls) < Len(messageHandlers[event])

\* what emit logs
HandlerErrors(calls) ==
    {Log("Error in event handler", 0, calls[i].event) :
        i \in {j \in 1 .. Len(calls) : calls[j].threw}}

\* handleReconnection, with the comparison against the cap off by one
handleReconnectionPastCap(timers) ==
    IF reconnectAttempts > maxReconnectAttempts
    THEN /\ lastLog' = {Log("Max reconnection attempts reached", 0, "")}
         /\ reconnectTimers' = timers
         /\ UNCHANGED reconnectAttempts
    ELSE /\ reconnectAttempts' = reconnectAttempts + 1
         /\ reconnectTimers' = timers + 1
         /\ lastLog' = {Log("Attempting to reconnect", 0, "")}

\* faulty variant: the attempt is counted but connect() is not scheduled
handleReconnectionUnscheduled(timers) ==
    IF reconnectAttempts >= maxReconnectAttempts
    THEN /\ lastLog' = {Log("Max reconnection attempts reached", 0, "")}
         /\ reconnectTimers' = timers
         /\ UNCHANGED reconnectAttempts
    ELSE /\ reconnectAttempts' = reconnectAttempts + 1
         /\ reconnectTimers' = timers
         /\ lastLog' = {Log("Attempting to reconnect", 0, "")}

\* handleReconnection, with `timers` callbacks of setTimeout pending: at the
\* cap it only logs, below it it counts the attempt and schedules connect()
handleReconnection(timers) ==
    IF reconnectAttempts >= maxReconnectAttempts
    THEN /\ lastLog' = {Log("Max reconnection attempts reached", 0, "")}
         /\ reconnectTimers' = timers
         /\ UNCHANGED reconnectAttempts
    ELSE /\ reconnectAttempts' = reconnectAttempts + 1
         /\ reconnectTimers' = timers + 1
         /\ lastLog' = {Log("Attempting to reconnect", 0, "")}

\* connect(): a new socket, or the constructor throws and the catch calls
\* handleReconnection
connect(timers) ==
    \/ /\ ws' = "connecting"
       /\ sent' = << >>
       /\ frameSeen' = FALSE
       /\ reconnectTimers' = timers
       /\ lastLog' = {Log("Connecting to BoltOdds WebSocket", 0, "")}
       /\ UNCHANGED << isConnected, reconnectAttempts >>
    \/ /\ handleReconnection(timers)
       /\ UNCHANGED << ws, sent, frameSeen, isConnected >>

\* subscribe(): what it sends, given isConnected and ws as the caller left
\* them
subscribeSkipped(connected, socket) == << >>

subscribe(connected, socket) ==
    IF ~ connected \/ socket = "null"
    THEN << >>
    ELSE << SubscribeRequest(subscriptionFilters) >>

\* close(): ws.close() has an effect on a socket that is connecting or open
close ==
    /\ ws' = IF ws \in {"connecting", "open"} THEN "closing" ELSE ws
    /\ isConnected' = IF ws = "null" THEN isConnected ELSE FALSE
    /\ closeRequested' = TRUE
    /\ UNCHANGED << reconnectAttempts, reconnectTimers, subscriptionFilters,
                    sent, frameSeen, messageHandlers >>

\* the client of a bot that is connected and subscribed
FeedConnected ==
    /\ ws = "open"
    /\ isConnected = TRUE
    /\ reconnectAttempts = 0
    /\ reconnectTimers = 0
    /\ subscriptionFilters = DefaultFilters
    /\ sent = << SubscribeRequest(DefaultFilters) >>
    /\ frameSeen = FALSE
    /\ messageHandlers = BotHandlers
    /\ delivered = << >>
    /\ closeRequested = FALSE

----------------------------------------------------------------------------
(* Actions *)

Init ==
    /\ now = 0
    /\ boltOddsData = << >>
    /\ polymarketData = << >>
    /\ positionObjects = << >>
    /\ activePositions = [t \in Tokens |-> 0]
    /\ tradingHistory = << >>
    /\ tasks = EmptyBag
    /\ orderBudget = MaxOrders
    /\ lastLog = {}
    /\ autoSellEnabled \in BOOLEAN
    /\ isRunning = TRUE
    /\ exited = FALSE
    /\ FeedConnected
    /\ NoResults

\* time passes
AdvanceClock(steps) ==
    /\ ~ exited
    /\ \E d \in steps :
          /\ now + d <= MaxHours * MsPerHour
          /\ now' = now + d
    /\ lastLog' = {}
    /\ UNCHANGED << oddsVars, feedVars, storeVars, ledgerVars, tasks, orderBudget,
                    autoSellEnabled,
                    isRunning, exited >>

\* handleBoltOddsUpdate, the handler of initialState, gameUpdate, lineUpdate
\* and gameAdded
HandleBoltOddsUpdate(frames) ==
    \E data \in frames :
        /\ ~ exited
        /\ boltOddsData' = updateBoltOddsData(boltOddsData, data)
        /\ CheckAndSweep(updateBoltOddsData(boltOddsData, data),
                         {Log("Updated BoltOdds data", 0, createGameKey(data))})
        /\ UNCHANGED << oddsVars, feedVars, now, polymarketData, ledgerVars, autoSellEnabled,
                        isRunning, exited >>

\* the 30 s interval of startTradingLoop
TradingLoopTick ==
    /\ ~ exited
    /\ isRunning
    /\ CheckAndSweep(boltOddsData, {})
    /\ UNCHANGED << oddsVars, feedVars, now, storeVars, ledgerVars, autoSellEnabled, isRunning,
                    exited >>

\* the 5 min interval of startPeriodicCleanup
PeriodicCleanup ==
    /\ ~ exited
    /\ isRunning
    /\ boltOddsData' = clearOldData(boltOddsData, CleanupMaxAgeMinutes)
    /\ polymarketData' = clearOldData(polymarketData, CleanupMaxAgeMinutes)
    /\ lastLog' = {Log("Cleared old data", 0, "")}
    /\ UNCHANGED << oddsVars, feedVars, now, ledgerVars, tasks, orderBudget, autoSellEnabled,
                    isRunning, exited >>

\* OddsComparison.updatePolymarketData
UpdatePolymarketData(tokens, prices) ==
    \E t \in tokens, md \in prices :
        /\ ~ exited
        /\ polymarketData' = updatePolymarketData(polymarketData, t, md)
        /\ lastLog' = {Log("Updated Polymarket data", t, "")}
        /\ ResetResults
        /\ UNCHANGED << feedVars, now, boltOddsData, ledgerVars, tasks, orderBudget,
                        autoSellEnabled, isRunning, exited >>

\* sellPosition(tokenId, amount) called from outside (the CLI's `sell <id>`),
\* up to its first await
ManualSell(tokens, amounts) ==
    \E t \in tokens, amount \in amounts :
        /\ ~ exited
        /\ IF activePositions[t] = 0
           THEN /\ lastLog' = {Log("Error selling position", t, "NotFound"),
                               Log("cli: Error selling position", t, "NotFound")}
                /\ UNCHANGED << tasks, orderBudget >>
           ELSE /\ orderBudget > 0
                /\ tasks' = tasks (+) SetToBag({SellTask(t, amount, "manual")})
                /\ orderBudget' = orderBudget - 1
                /\ lastLog' = {}
        /\ UNCHANGED << oddsVars, feedVars, now, storeVars, ledgerVars, autoSellEnabled, isRunning,
                        exited >>

----------------------------------------------------------------------------
(* TradingBot.js: the continuations of executeBuyOrder and sellPosition *)

Suspended(kind, pc) == {k \in BagToSet(tasks) : k.kind = kind /\ k.pc = pc}

Without(k) == tasks (-) SetToBag({k})

\* a flow that ends leaves the bag, and the objects only it held are dropped
Finish(k, objs, active) ==
    /\ tasks' = Without(k)
    /\ activePositions' = active
    /\ positionObjects' = Collect(objs, active, Without(k))

\* faulty variant: the order is submitted, and submitted again
SubmitAndResubmit(k, price) ==
    /\ tasks' = Without(k) (+) SetToBag({[k EXCEPT !.pc = "order", !.price = price]})
                           (+) SetToBag({[k EXCEPT !.pc = "order", !.price = price]})
    /\ lastLog' = {}
    /\ UNCHANGED ledgerVars

\* a flow that goes on to its order submission
Submit(k, price) ==
    /\ tasks' = Without(k) (+) SetToBag({[k EXCEPT !.pc = "order", !.price = price]})
    /\ lastLog' = {}
    /\ UNCHANGED ledgerVars

\* the position object of executeBuyOrder, lines 213-223
NewPosition(k, orderId) ==
    [tokenId |-> k.tokenId,
     gameKey |-> createGameKey(k.opportunity.gameInfo),
     orderId |-> orderId,
     amount |-> k.amount,
     price |-> k.price,
     buyTime |-> now,
     valueAnalysis |-> k.opportunity.valueAnalysis,
     status |-> "open",
     sellPrice |-> 0,
     sellTime |-> 0]

HistoryEntry(action, tokenId, orderId, amount, price, valueAnalysis) ==
    [action |-> action, tokenId |-> tokenId, orderId |-> orderId,
     amount |-> amount, price |-> price, time |-> now,
     valueAnalysis |-> valueAnalysis]

\* the exchange numbers the orders it accepts; every accepted order is in the
\* history
NextOrderId == Len(tradingHistory) + 1

\* faulty variant: the position is set but the history is not written
RecordBuyWithoutHistory(k) ==
    /\ Finish(k, [id \in (DOMAIN positionObjects) \cup {NextOrderId} |->
                    IF id = NextOrderId THEN NewPosition(k, NextOrderId)
                    ELSE positionObjects[id]],
              [activePositions EXCEPT ![k.tokenId] = NextOrderId])
    /\ lastLog' = {Log("Buy order executed", k.tokenId, "")}
    /\ UNCHANGED tradingHistory

\* executeBuyOrder after buyContract has returned, lines 212-240
RecordBuy(k) ==
    /\ Finish(k, [id \in (DOMAIN positionObjects) \cup {NextOrderId} |->
                    IF id = NextOrderId THEN NewPosition(k, NextOrderId)
                    ELSE positionObjects[id]],
              [activePositions EXCEPT ![k.tokenId] = NextOrderId])
    /\ tradingHistory' = Append(tradingHistory,
           HistoryEntry("buy", k.tokenId, NextOrderId, k.amount, k.price,
                        k.opportunity.valueAnalysis))
    /\ lastLog' = {Log("Buy order executed", k.tokenId, "")}

\* faulty variant: the buy stays suspended at its order-book read and asks
\* again
AbandonBuyAndRetry(k, msg, error) ==
    /\ lastLog' = {Log(msg, k.tokenId, error)}
    /\ UNCHANGED << ledgerVars, tasks >>

\* the catch of executeBuyOrder, and its return when there is no ask
AbandonBuy(k, msg, error) ==
    /\ Finish(k, positionObjects, activePositions)
    /\ lastLog' = {Log(msg, k.tokenId, error)}
    /\ UNCHANGED tradingHistory

\* the position object after `position.amount -= sellAmount` and what follows
SoldPosition(k) ==
    LET p == positionObjects[k.position]
    IN  [p EXCEPT !.amount = p.amount - k.amount,
                  !.sellPrice = k.price,
                  !.sellTime = now,
                  !.status = IF p.amount - k.amount <= 0 THEN "closed" ELSE @]

\* faulty variant: the history holds the position object itself, so the
\* decrement of a sell shows in the position's 'buy' entry
RecordSellThroughHistory(k) ==
    /\ Finish(k, [positionObjects EXCEPT ![k.position] = SoldPosition(k)],
              IF SoldPosition(k).amount <= 0
              THEN [activePositions EXCEPT ![k.tokenId] = 0]
              ELSE activePositions)
    /\ tradingHistory' = Append(
           [i \in 1 .. Len(tradingHistory) |->
               IF tradingHistory[i].orderId = k.position
               THEN [tradingHistory[i] EXCEPT !.amount = SoldPosition(k).amount]
               ELSE tradingHistory[i]],
           HistoryEntry("sell", k.tokenId, NextOrderId, k.amount, k.price, NoValue))
    /\ lastLog' = {Log("Sell order executed", k.tokenId, "")}

\* sellPosition after sellContract has returned, lines 273-300
RecordSell(k) ==
    /\ Finish(k, [positionObjects EXCEPT ![k.position] = SoldPosition(k)],
              IF SoldPosition(k).amount <= 0
              THEN [activePositions EXCEPT ![k.tokenId] = 0]
              ELSE activePositions)
    /\ tradingHistory' = Append(tradingHistory,
           HistoryEntry("sell", k.tokenId, NextOrderId, k.amount, k.price, NoValue))
    /\ lastLog' = {Log("Sell order executed", k.tokenId, "")}

\* faulty variant: the error of a sell is swallowed
FailSellSilently(k, error) ==
    /\ Finish(k, positionObjects, activePositions)
    /\ lastLog' = {}
    /\ UNCHANGED << tradingHistory, isRunning, exited >>

\* the catch of sellPosition logs and rethrows: the CLI catches a manual
\* sell's error; nobody holds the promise of a sweep's sell, so its rejection
\* is unhandled and setupGracefulShutdown stops the bot and exits
FailSell(k, error) ==
    /\ Finish(k, positionObjects, activePositions)
    /\ IF k.origin = "auto"
       THEN /\ isRunning' = FALSE
            /\ exited' = TRUE
            /\ lastLog' = {Log("Error selling position", k.tokenId, error),
                           Log("Unhandled rejection", k.tokenId, error)}
       ELSE /\ lastLog' = {Log("Error selling position", k.tokenId, error),
                           Log("cli: Error selling position", k.tokenId, error)}
            /\ UNCHANGED << isRunning, exited >>
    /\ UNCHANGED tradingHistory

BuyOrderbookReturns ==
    \E k \in Suspended("buy", "book"), book \in Books :
        /\ ~ exited
        /\ IF book.asks = << >>
           THEN AbandonBuy(k, "No asks available for buy order", "")
           ELSE Submit(k, Head(book.asks))
        /\ UNCHANGED << oddsVars, feedVars, now, storeVars, orderBudget, autoSellEnabled, isRunning,
                        exited >>

BuyOrderbookFails ==
    \E k \in Suspended("buy", "book") :
        /\ ~ exited
        /\ AbandonBuy(k, "Error executing buy order", "ExternalCallFailure")
        /\ UNCHANGED << oddsVars, feedVars, now, storeVars, orderBudget, autoSellEnabled, isRunning,
                        exited >>

BuyContractReturns ==
    \E k \in Suspended("buy", "order") :
        /\ ~ exited
        /\ RecordBuy(k)
        /\ UNCHANGED << oddsVars, feedVars, now, storeVars, orderBudget, autoSellEnabled, isRunning,
                        exited >>

BuyContractFails ==
    \E k \in Suspended("buy", "order") :
        /\ ~ exited
        /\ AbandonBuy(k, "Error executing buy order", "ExternalCallFailure")
        /\ UNCHANGED << oddsVars, feedVars, now, storeVars, orderBudget, autoSellEnabled, isRunning,
                        exited >>

SellOrderbookReturns ==
    \E k \in Suspended("sell", "book"), book \in Books :
        /\ ~ exited
        /\ IF book.bids = << >>
           THEN FailSell(k, "NoLiquidity")
           ELSE Submit(k, Head(book.bids)) /\ UNCHANGED << isRunning, exited >>
        /\ UNCHANGED << oddsVars, feedVars, now, storeVars, orderBudget, autoSellEnabled >>

SellOrderbookFails ==
    \E k \in Suspended("sell", "book") :
        /\ ~ exited
        /\ FailSell(k, "ExternalCallFailure")
        /\ UNCHANGED << oddsVars, feedVars, now, storeVars, orderBudget, autoSellEnabled >>

SellContractReturns ==
    \E k \in Suspended("sell", "order") :
        /\ ~ exited
        /\ RecordSell(k)
        /\ UNCHANGED << oddsVars, feedVars, now, storeVars, orderBudget, autoSellEnabled, isRunning,
                        exited >>

SellContractFails ==
    \E k \in Suspended("sell", "order") :
        /\ ~ exited
        /\ FailSell(k, "ExternalCallFailure")
        /\ UNCHANGED << oddsVars, feedVars, now, storeVars, orderBudget, autoSellEnabled >>

\* SIGINT, SIGTERM or the CLI's exit: TradingBot.stop, then process.exit
Shutdown ==
    /\ ~ exited
    /\ isRunning' = FALSE
    /\ exited' = TRUE
    /\ close
    /\ delivered' = << >>
    /\ lastLog' = {Log("Trading bot stopped", 0, "")}
    /\ UNCHANGED << now, storeVars, ledgerVars, tasks, orderBudget,
                    autoSellEnabled, oddsVars >>

OrderCalls ==
    \/ BuyOrderbookReturns
    \/ BuyOrderbookFails
    \/ BuyContractReturns
    \/ BuyContractFails
    \/ SellOrderbookReturns
    \/ SellOrderbookFails
    \/ SellContractReturns
    \/ SellContractFails

Next ==
    \/ AdvanceClock(LongWait)
    \/ HandleBoltOddsUpdate(TradeFrames)
    \/ TradingLoopTick
    \/ PeriodicCleanup
    \/ UpdatePolymarketData(TradeTokens, TradePrices)
    \/ ManualSell(TradeTokens, FullSellOnly)
    \/ OrderCalls
    \/ Shutdown

Spec == Init /\ [][Next]_vars

----------------------------------------------------------------------------
(* The portfolio near its cap: eleven instruments are priced, game G1 is in *)
(* the odds store, and the first nine or the first ten instruments are     *)
(* held, one position of positionSize each (one short of the portfolio     *)
(* cap, or at it).  The program reaches these states from Init by price    *)
(* updates, one feed frame and nine or ten buys that succeed, followed by  *)
(* the price updates of the remaining instruments.                         *)

CapPortfolios == {1 .. (CapSlots - 1), 1 .. CapSlots}

CapBolt == << [key |-> createGameKey(FrameAHigh), data |-> FrameAHigh,
               timestamp |-> 0] >>

\* the last instrument is priced at 0.65, a medium edge; the others at 0.60
CapPoly ==
    [t \in Tokens |->
        [key |-> t,
         data |-> IF t = CapSlots + 1 THEN MarketData(65) ELSE MarketData(60),
         timestamp |-> 0]]

CapOpportunity(t) ==
    LET opps == findTradingOpportunities(CapBolt, CapPoly)
    IN  opps[CHOOSE i \in 1 .. Len(opps) : opps[i].tokenId = t]

CapPosition(t) ==
    [tokenId |-> t,
     gameKey |-> createGameKey(CapOpportunity(t).gameInfo),
     orderId |-> t,
     amount |-> positionSize,
     price |-> Head(FullBook.asks),
     buyTime |-> 0,
     valueAnalysis |-> CapOpportunity(t).valueAnalysis,
     status |-> "open",
     sellPrice |-> 0,
     sellTime |-> 0]

InitCap ==
  \E held \in CapPortfolios :
    /\ now = 0
    /\ boltOddsData = CapBolt
    /\ polymarketData = CapPoly
    /\ positionObjects = [t \in held |-> CapPosition(t)]
    /\ activePositions = [t \in Tokens |-> IF t \in held THEN t ELSE 0]
    /\ tradingHistory =
           [t \in held |->
               [action |-> "buy", tokenId |-> t, orderId |-> t,
                amount |-> positionSize, price |-> Head(FullBook.asks),
                time |-> 0, valueAnalysis |-> CapOpportunity(t).valueAnalysis]]
    /\ tasks = EmptyBag
    /\ orderBudget = MaxCapOrders
    /\ lastLog = {}
    /\ autoSellEnabled = FALSE
    /\ isRunning = TRUE
    /\ exited = FALSE
    /\ FeedConnected
    /\ NoResults

SpecCap == InitCap /\ [][Next]_vars

----------------------------------------------------------------------------
(* Auto-sell: two positions are held, the one of instrument 1 bought two    *)
(* hours ago and the one of instrument 2 bought now; AUTO_SELL_ENABLED is   *)
(* set and no instrument is priced, so that the passes only sweep.  The     *)
(* clock moves by the hour.                                                 *)

SweepHeld == {1, 2}
SweepBuyTime(t) == IF t = 1 THEN 0 ELSE AutoSellHours * MsPerHour

InitSweep ==
    /\ now = AutoSellHours * MsPerHour
    /\ boltOddsData = << >>
    /\ polymarketData = << >>
    /\ positionObjects =
           [t \in SweepHeld |-> [CapPosition(t) EXCEPT !.buyTime = SweepBuyTime(t)]]
    /\ activePositions = [t \in Tokens |-> IF t \in SweepHeld THEN t ELSE 0]
    /\ tradingHistory =
           [t \in SweepHeld |->
               [action |-> "buy", tokenId |-> t, orderId |-> t,
                amount |-> positionSize, price |-> Head(FullBook.asks),
                time |-> SweepBuyTime(t),
                valueAnalysis |-> CapOpportunity(t).valueAnalysis]]
    /\ tasks = EmptyBag
    /\ orderBudget = MaxOrders
    /\ lastLog = {}
    /\ autoSellEnabled = TRUE
    /\ isRunning = TRUE
    /\ exited = FALSE
    /\ FeedConnected
    /\ NoResults

NextSweep ==
    \/ AdvanceClock(ShortWait)
    \/ HandleBoltOddsUpdate(TradeFrames)
    \/ TradingLoopTick
    \/ SellOrderbookReturns
    \/ SellOrderbookFails
    \/ SellContractReturns
    \/ SellContractFails
    \/ Shutdown

SpecSweep == InitSweep /\ [][NextSweep]_vars

----------------------------------------------------------------------------
(* The streaming client from construction on: the bot starts, the socket   *)
(* opens or fails, frames arrive, handlers are registered, the filters are *)
(* updated and the bot is stopped.  No instrument is priced, so the passes *)
(* find nothing to trade.                                                   *)

\* at most this many handlers are registered for one event
MaxHandlers == 3
\* at most this many requests are sent on one socket
MaxSent == 2

\* the frames of this specification: a game update, a game_added frame
\* without data (the bot's handler throws on it), a keep-alive, a message of
\* an unknown type and text that does not parse
FeedFrames ==
    {Inbound("game_update", FrameAHigh), Inbound("game_added", NoData),
     Inbound("ping", NoData), Inbound("hello", NoData), Malformed}

tradeVars ==
    << now, polymarketData, ledgerVars, autoSellEnabled, exited, oddsVars >>

\* TradingBot.start
Start ==
    /\ ~ exited
    /\ ~ isRunning
    /\ ws = "null"
    /\ ~ closeRequested
    /\ connect(reconnectTimers)
    /\ isRunning' = TRUE
    /\ delivered' = << >>
    /\ UNCHANGED << tradeVars, boltOddsData, tasks, orderBudget,
                    subscriptionFilters, messageHandlers, closeRequested >>

\* the callback of setTimeout in handleReconnection
ReconnectTimerFires ==
    /\ ~ exited
    /\ reconnectTimers > 0
    /\ connect(reconnectTimers - 1)
    /\ delivered' = << >>
    /\ UNCHANGED << tradeVars, boltOddsData, tasks, orderBudget, isRunning,
                    subscriptionFilters, messageHandlers, closeRequested >>

\* the socket's 'open' event
WsOpen ==
    /\ ~ exited
    /\ ws = "connecting"
    /\ ws' = "open"
    /\ isConnected' = TRUE
    /\ reconnectAttempts' = 0
    /\ sent' = sent \o subscribe(TRUE, "open")
    /\ delivered' = << >>
    /\ lastLog' = {Log("Connected to BoltOdds WebSocket", 0, "")}
    /\ UNCHANGED << tradeVars, boltOddsData, tasks, orderBudget, isRunning,
                    reconnectTimers, subscriptionFilters, frameSeen,
                    messageHandlers, closeRequested >>

\* faulty variant: the 'error' handler schedules a reconnection as well
WsErrorReconnects ==
    /\ ~ exited
    /\ ws \in {"connecting", "open"}
    /\ ws' = "closing"
    /\ isConnected' = FALSE
    /\ handleReconnection(reconnectTimers)
    /\ delivered' = << >>
    /\ UNCHANGED << tradeVars, boltOddsData, tasks, orderBudget, isRunning,
                    subscriptionFilters, sent, frameSeen, messageHandlers,
                    closeRequested >>

\* the socket's 'error' event; its 'close' event follows
WsError ==
    /\ ~ exited
    /\ ws \in {"connecting", "open"}
    /\ ws' = "closing"
    /\ isConnected' = FALSE
    /\ delivered' = << >>
    /\ lastLog' = {Log("BoltOdds WebSocket error", 0, "")}
    /\ UNCHANGED << tradeVars, boltOddsData, tasks, orderBudget, isRunning,
                    reconnectAttempts, reconnectTimers, subscriptionFilters,
                    sent, frameSeen, messageHandlers, closeRequested >>

\* the socket's 'close' event
WsClose ==
    /\ ~ exited
    /\ ws \in {"open", "closing"}
    /\ ws' = "closed"
    /\ isConnected' = FALSE
    /\ handleReconnection(reconnectTimers)
    /\ delivered' = << >>
    /\ UNCHANGED << tradeVars, boltOddsData, tasks, orderBudget, isRunning,
                    subscriptionFilters, sent, frameSeen, messageHandlers,
                    closeRequested >>

\* the bot's handler ran handleBoltOddsUpdate on the data
BotUpdated(calls) ==
    \E i \in 1 .. Len(calls) :
        /\ calls[i].handler = "bot"
        /\ calls[i].event \in UpdateEvents
        /\ ~ calls[i].threw
        /\ calls[i].data # NoData

\* the socket's 'message' event: handleMessage
HandleMessage(frames) ==
    \E m \in frames :
        /\ ~ exited
        /\ ws = "open"
        /\ frameSeen' = TRUE
        /\ IF m = Malformed
           THEN /\ delivered' = << >>
                /\ lastLog' = {Log("Error parsing BoltOdds message", 0, "")}
                /\ UNCHANGED << boltOddsData, tasks, orderBudget >>
           ELSE IF EventOf(m.action) = ""
           THEN /\ delivered' = << >>
                /\ lastLog' = IF m.action \in {"socket_connected", "ping"}
                              THEN {}
                              ELSE {Log("Unknown message type received", 0,
                                        m.action)}
                /\ UNCHANGED << boltOddsData, tasks, orderBudget >>
           ELSE /\ delivered' = emit(EventOf(m.action), m.data)
                /\ IF BotUpdated(emit(EventOf(m.action), m.data))
                   THEN /\ boltOddsData' =
                              updateBoltOddsData(boltOddsData, m.data)
                        /\ CheckAndSweep(
                              updateBoltOddsData(boltOddsData, m.data),
                              HandlerErrors(emit(EventOf(m.action), m.data))
                              \cup (IF Escaped(EventOf(m.action),
                                               emit(EventOf(m.action), m.data))
                                    THEN {Log("Error parsing BoltOdds message",
                                              0, "")}
                                    ELSE {})
                              \cup {Log("Updated BoltOdds data", 0,
                                        createGameKey(m.data))})
                   ELSE /\ lastLog' =
                              HandlerErrors(emit(EventOf(m.action), m.data))
                              \cup (IF Escaped(EventOf(m.action),
                                               emit(EventOf(m.action), m.data))
                                    THEN {Log("Error parsing BoltOdds message",
                                              0, "")}
                                    ELSE {})
                        /\ UNCHANGED << boltOddsData, tasks, orderBudget >>
        /\ UNCHANGED << tradeVars, isRunning, ws, isConnected,
                        reconnectAttempts, reconnectTimers,
                        subscriptionFilters, sent, messageHandlers,
                        closeRequested >>

\* on(event, handler)
On(events, handlers) ==
    \E e \in events, h \in handlers :
        /\ ~ exited
        /\ Len(messageHandlers[e]) < MaxHandlers
        /\ messageHandlers' = [messageHandlers EXCEPT ![e] = Append(@, h)]
        /\ delivered' = << >>
        /\ lastLog' = {}
        /\ UNCHANGED << tradeVars, boltOddsData, tasks, orderBudget,
                        isRunning, ws, isConnected, reconnectAttempts,
                        reconnectTimers, subscriptionFilters, sent, frameSeen,
                        closeRequested >>

\* updateSubscription(filters)
UpdateSubscription(updates) ==
    \E f \in updates :
        /\ ~ exited
        /\ Len(sent) < MaxSent
        /\ subscriptionFilters' = MergeFilters(subscriptionFilters, f)
        /\ sent' = IF isConnected /\ ws # "null"
                   THEN Append(sent, SubscribeRequest(
                                   MergeFilters(subscriptionFilters, f)))
                   ELSE sent
        /\ delivered' = << >>
        /\ lastLog' = {}
        /\ UNCHANGED << tradeVars, boltOddsData, tasks, orderBudget,
                        isRunning, ws, isConnected, reconnectAttempts,
                        reconnectTimers, frameSeen, messageHandlers,
                        closeRequested >>

\* TradingBot.stop, which the application calls on a bot it has started
Stop ==
    /\ ~ exited
    /\ isRunning \/ closeRequested
    /\ isRunning' = FALSE
    /\ close
    /\ delivered' = << >>
    /\ lastLog' = {Log("Trading bot stopped", 0, "")}
    /\ UNCHANGED tradeVars
    /\ UNCHANGED << boltOddsData, tasks, orderBudget >>

InitFeed ==
    /\ now = 0
    /\ boltOddsData = << >>
    /\ polymarketData = << >>
    /\ positionObjects = << >>
    /\ activePositions = [t \in Tokens |-> 0]
    /\ tradingHistory = << >>
    /\ tasks = EmptyBag
    /\ orderBudget = MaxOrders
    /\ lastLog = {}
    /\ autoSellEnabled = FALSE
    /\ isRunning = FALSE
    /\ exited = FALSE
    /\ ws = "null"
    /\ isConnected = FALSE
    /\ reconnectAttempts = 0
    /\ reconnectTimers = 0
    /\ subscriptionFilters = DefaultFilters
    /\ sent = << >>
    /\ frameSeen = FALSE
    /\ messageHandlers = BotHandlers
    /\ delivered = << >>
    /\ closeRequested = FALSE
    /\ NoResults

NextFeed ==
    \/ Start
    \/ ReconnectTimerFires
    \/ WsOpen
    \/ WsError
    \/ WsClose
    \/ HandleMessage(FeedFrames)
    \/ On({"gameUpdate"}, OtherHandlers)
    \/ UpdateSubscription(FilterUpdates)
    \/ Stop

SpecFeed == InitFeed /\ [][NextFeed]_vars

\* the same with timers and sockets that do their work: a pending timer
\* fires, a socket that is connecting opens or fails, and the 'close' event
\* of a socket that is closing arrives
SpecFeedLive ==
    /\ SpecFeed
    /\ WF_vars(ReconnectTimerFires)
    /\ WF_vars(WsOpen \/ WsError)
    /\ WF_vars(ws = "closing" /\ WsClose)

----------------------------------------------------------------------------
(* Stopping the bot: it runs, its client is connected and subscribed and   *)
(* instrument 1 is priced at 0.60, so that a frame of game G1 is an         *)
(* opportunity.  The bot is stopped at some point; the socket, the timers  *)
(* and the order calls in flight go on.                                     *)

StopFrames == {Inbound("game_update", FrameAHigh)}

InitStop ==
    /\ now = 0
    /\ boltOddsData = << >>
    /\ polymarketData = updatePolymarketData(<< >>, 1, MarketData(60))
    /\ positionObjects = << >>
    /\ activePositions = [t \in Tokens |-> 0]
    /\ tradingHistory = << >>
    /\ tasks = EmptyBag
    /\ orderBudget = MaxOrders
    /\ lastLog = {}
    /\ autoSellEnabled = FALSE
    /\ isRunning = TRUE
    /\ exited = FALSE
    /\ FeedConnected
    /\ NoResults

NextStop ==
    \/ Stop
    \/ WsClose
    \/ ReconnectTimerFires
    \/ WsOpen
    \/ HandleMessage(StopFrames)
    \/ TradingLoopTick
    \/ PeriodicCleanup
    \/ BuyOrderbookReturns
    \/ BuyOrderbookFails
    \/ BuyContractReturns
    \/ BuyContractFails

SpecStop == InitStop /\ [][NextStop]_vars

----------------------------------------------------------------------------
(* The stores and the value engine on their own: odds snapshots and prices *)
(* are ingested in any order, and the queries of the CLI (`odds`,          *)
(* `opportunities`) and the conversion test of test.js are run on what is   *)
(* stored.  The clock stands still.                                         *)

\* at most this many games are in the odds store
MaxGames == 2

\* two moneyline outcomes share the best edge, after a smaller one
FrameTie ==
    [sport |-> "NHL", home_team |-> "EDM", away_team |-> "CGY", game |-> "G3",
     outcomes |-> << Outcome("Total", -110, "Over"),
                     Outcome("Moneyline", -150, "DRAW"),
                     Outcome("Moneyline", -300, "EDM"),
                     Outcome("Moneyline", -300, "CGY") >>]
\* another sport
FrameOtherSport ==
    [sport |-> "NBA", home_team |-> "LAL", away_team |-> "NYK", game |-> "G4",
     outcomes |-> << Outcome("Moneyline", -400, "LAL") >>]
\* no moneyline market
FrameNoMoneyline ==
    [sport |-> "NHL", home_team |-> "WPG", away_team |-> "OTT", game |-> "G5",
     outcomes |-> << Outcome("Spread", -900, "WPG") >>]
\* a moneyline outcome whose odds are missing (0 stands for null)
FrameNoOdds ==
    [sport |-> "NHL", home_team |-> "VAN", away_team |-> "SEA", game |-> "G6",
     outcomes |-> << Outcome("Moneyline", 0, "VAN") >>]
\* two games whose team names hold the separator of the key
FrameSplitLeft ==
    [sport |-> "NHL", home_team |-> "ST_L", away_team |-> "BOS", game |-> "G7",
     outcomes |-> << Outcome("Moneyline", -400, "ST_L") >>]
FrameSplitRight ==
    [sport |-> "NHL", home_team |-> "ST", away_team |-> "L_BOS", game |-> "G7",
     outcomes |-> << Outcome("Moneyline", -213, "ST") >>]

OddsTokens == {1, 2}

OddsFrames ==
    {FrameAHigh, FrameTie, FrameOtherSport, FrameNoMoneyline, FrameNoOdds,
     FrameSplitLeft, FrameSplitRight}

\* the prices instrument 1 takes, in percent: all inside (0, 1)
ValidPrices == {MarketData(50), MarketData(60), MarketData(65)}

\* the prices instrument 2 takes: 0.60, and 0, 1, 1.2 and -0.1
AnyPrices ==
    {MarketData(60), MarketData(0), MarketData(100), MarketData(120),
     MarketData(-10)}

\* the American odds of the conversion test
ConversionSamples == {150, -120, 100, -300}

\* updateBoltOddsData(gameData)
IngestOdds(frames) ==
    \E f \in frames :
        /\ ~ exited
        /\ \/ MapHas(boltOddsData, createGameKey(f))
           \/ Len(boltOddsData) < MaxGames
        /\ boltOddsData' = updateBoltOddsData(boltOddsData, f)
        /\ lastLog' = {Log("Updated BoltOdds data", 0, createGameKey(f))}
        /\ ResetResults
        /\ UNCHANGED << feedVars, now, polymarketData, ledgerVars, tasks,
                        orderBudget, autoSellEnabled, isRunning, exited >>

\* calculateValue of each match, in the order of the matches
RECURSIVE Values(_, _)
Values(ms, i) ==
    IF i > Len(ms) THEN << >>
    ELSE << calculateValue(ms[i]) >> \o Values(ms, i + 1)

\* the queries: findMatchingMarkets, and findTradingOpportunities with the
\* value of each match
ShowTradingOpportunities ==
    /\ ~ exited
    /\ foundMatches' = findMatchingMarkets(boltOddsData, polymarketData)
    /\ foundValues' =
          Values(findMatchingMarkets(boltOddsData, polymarketData), 1)
    /\ foundOpportunities' =
          findTradingOpportunities(boltOddsData, polymarketData)
    /\ converted' = << >>
    /\ lastLog' = {}
    /\ UNCHANGED << feedVars, now, storeVars, ledgerVars, tasks, orderBudget,
                    autoSellEnabled, isRunning, exited >>

\* americanToDecimal, then decimalToAmerican of the result, as the test
\* runs them: on an OddsComparison that holds no data yet
ConvertOdds(samples) ==
    \E x \in samples :
        /\ ~ exited
        /\ boltOddsData = << >>
        /\ polymarketData = << >>
        /\ converted' =
              << [american |-> x, decimal |-> americanToDecimal(x),
                  back |-> decimalToAmerican(americanToDecimal(x))] >>
        /\ foundMatches' = << >>
        /\ foundValues' = << >>
        /\ foundOpportunities' = << >>
        /\ lastLog' = {}
        /\ UNCHANGED << feedVars, now, storeVars, ledgerVars, tasks,
                        orderBudget, autoSellEnabled, isRunning, exited >>

InitOdds ==
    /\ now = 0
    /\ boltOddsData = << >>
    /\ polymarketData = << >>
    /\ positionObjects = << >>
    /\ activePositions = [t \in Tokens |-> 0]
    /\ tradingHistory = << >>
    /\ tasks = EmptyBag
    /\ orderBudget = MaxOrders
    /\ lastLog = {}
    /\ autoSellEnabled = FALSE
    /\ isRunning = TRUE
    /\ exited = FALSE
    /\ FeedConnected
    /\ NoResults

NextOdds ==
    \/ IngestOdds(OddsFrames)
    \/ UpdatePolymarketData({1}, ValidPrices)
    \/ UpdatePolymarketData({2}, AnyPrices)
    \/ ShowTradingOpportunities
    \/ ConvertOdds(ConversionSamples)

SpecOdds == InitOdds /\ [][NextOdds]_vars

----------------------------------------------------------------------------
(* The stores under the clock: odds and prices are ingested hour by hour   *)
(* and the periodic cleanup runs in between.                                *)

NextClean ==
    \/ AdvanceClock(ShortWait)
    \/ IngestOdds(TradeFrames)
    \/ UpdatePolymarketData(OddsTokens, TradePrices)
    \/ PeriodicCleanup

SpecClean == InitOdds /\ [][NextClean]_vars

----------------------------------------------------------------------------
(* Selling a held position: instrument 1 is priced at 0.60, game G1 is in   *)
(* the odds store and a position of instrument 1 is held.  sellPosition is *)
(* called, without an amount or with one, the trading loop ticks and the   *)
(* order calls return or fail.                                              *)

\* the amount argument of sellPosition: none (0), a part of the position of
\* 10, or more than it
SellAmounts == {0, 4, 15}

InitHeld ==
    /\ now = 0
    /\ boltOddsData = CapBolt
    /\ polymarketData = updatePolymarketData(<< >>, 1, MarketData(60))
    /\ positionObjects = [t \in TradeTokens |-> CapPosition(t)]
    /\ activePositions = [t \in Tokens |-> IF t \in TradeTokens THEN t ELSE 0]
    /\ tradingHistory =
           [t \in TradeTokens |->
               [action |-> "buy", tokenId |-> t, orderId |-> t,
                amount |-> positionSize, price |-> Head(FullBook.asks),
                time |-> 0, valueAnalysis |-> CapOpportunity(t).valueAnalysis]]
    /\ tasks = EmptyBag
    /\ orderBudget = MaxOrders
    /\ lastLog = {}
    /\ autoSellEnabled = FALSE
    /\ isRunning = TRUE
    /\ exited = FALSE
    /\ FeedConnected
    /\ NoResults

NextHeld ==
    \/ ManualSell(TradeTokens, SellAmounts)
    \/ TradingLoopTick
    \/ OrderCalls

SpecHeld == InitHeld /\ [][NextHeld]_vars

----------------------------------------------------------------------------
(* Claims *)

RECURSIVE Copies(_)
Copies(S) ==
    IF S = {} THEN 0
    ELSE LET k == CHOOSE x \in S : TRUE
         IN  CopiesIn(k, tasks) + Copies(S \ {k})

\* the flows of one kind in flight for a token
InFlight(kind, t) == {k \in BagToSet(tasks) : k.kind = kind /\ k.tokenId = t}

\* the position objects of a token that are open
OpenPositions(t) ==
    {id \in DOMAIN positionObjects :
        positionObjects[id].tokenId = t /\ positionObjects[id].status = "open"}

\* C1: for every instrument there is at most one position whose status is
\* open, after any sequence of buys and sells in any interleaving.
C1_OneOpenPositionPerInstrument ==
    \A t \in Tokens : Cardinality(OpenPositions(t)) <= 1

\* C2: a buy order is never submitted for an instrument whose earlier buy is
\* still submitted and unanswered or whose position is still open: of the buy
\* orders in flight and the open position of an instrument there is at most
\* one.
C2_AtMostOneOpenOrderPerInstrument ==
    \A t \in Tokens :
        Copies({k \in InFlight("buy", t) : k.pc = "order"})
            + (IF activePositions[t] # 0 THEN 1 ELSE 0) <= 1

\* C3: the amounts of the active positions never add up to more than the
\* portfolio cap.
C3_ExposureWithinCap == getTotalPositionValue <= maxPositionSize

\* C4: for every instrument at most one sell is in flight at a time.
C4_AtMostOneSellInFlight ==
    \A t \in Tokens : Copies(InFlight("sell", t)) <= 1

\* the active set as the program sees it: the Position of each instrument
\* that has one
ActiveSet ==
    [t \in Tokens |-> IF activePositions[t] = 0 THEN << >>
                      ELSE << positionObjects[activePositions[t]] >>]

\* the flows a step starts or moves on
NewTasks == BagToSet(tasks' (-) tasks)
\* the buys a step starts: they are suspended at their order-book read
NewBuys == {k \in NewTasks : k.kind = "buy" /\ k.pc = "book"}
\* the orders a step submits
NewOrders == {k \in NewTasks : k.pc = "order"}
\* the history entries of one action of a token
Entries(action, t) ==
    {i \in 1 .. Len(tradingHistory) :
        tradingHistory[i].action = action /\ tradingHistory[i].tokenId = t}

\* C5: while a position exists for an instrument no step starts a buy for it
\* (no order-book read, hence no order), and the pass that finds the position
\* in place submits no order and leaves positions and history unchanged.
C5_NoOpWhenPositionExists ==
    [][\A t \in Tokens :
          activePositions[t] # 0 =>
             /\ \A k \in NewBuys : k.tokenId # t
             /\ Log("Already have position in token", t, "") \in lastLog' =>
                    NewOrders = {} /\ UNCHANGED << ActiveSet, tradingHistory >>]_vars

C5_PositionFound ==
    \E t \in Tokens :
        /\ activePositions[t] # 0
        /\ Log("Already have position in token", t, "") \in lastLog

\* C6: while the amounts of the active positions add up to the portfolio cap
\* or more no step starts a buy, and the pass that finds the cap reached
\* submits no order and leaves positions and history unchanged.
C6_NoOpWhenCapReached ==
    [][getTotalPositionValue >= maxPositionSize =>
          /\ NewBuys = {}
          /\ Log("Maximum position size reached", 0, "") \in lastLog' =>
                 NewOrders = {} /\ UNCHANGED << ActiveSet, tradingHistory >>]_vars

C6_CapFound ==
    /\ getTotalPositionValue >= maxPositionSize
    /\ Log("Maximum position size reached", 0, "") \in lastLog
    /\ \E i \in 1 .. Len(findTradingOpportunities(boltOddsData, polymarketData)) :
          activePositions[findTradingOpportunities(boltOddsData,
                                                   polymarketData)[i].tokenId] = 0

\* C7: every buy in flight, every position and every 'buy' entry of the
\* history comes from an opportunity of medium or high confidence.
C7_LowConfidenceNeverTraded ==
    /\ \A k \in BagToSet(tasks) :
          k.kind = "buy" =>
             k.opportunity.valueAnalysis.confidence \in {"medium", "high"}
    /\ \A id \in DOMAIN positionObjects :
          positionObjects[id].valueAnalysis.confidence \in {"medium", "high"}
    /\ \A i \in 1 .. Len(tradingHistory) :
          tradingHistory[i].action = "buy" =>
             tradingHistory[i].valueAnalysis.confidence \in {"medium", "high"}

\* a pass has just evaluated an opportunity of low confidence for an
\* instrument without a position, below the cap
C7_LowConfidenceEvaluated ==
    /\ Log("Updated BoltOdds data", 0, createGameKey(FrameBLow)) \in lastLog
    /\ getTotalPositionValue < maxPositionSize
    /\ \E i \in 1 .. Len(findTradingOpportunities(boltOddsData, polymarketData)) :
          LET opp == findTradingOpportunities(boltOddsData, polymarketData)[i]
          IN  /\ opp.valueAnalysis.confidence = "low"
              /\ activePositions[opp.tokenId] = 0

\* C8 as stated: in every state an instrument has a Position in the active
\* set if and only if a 'buy' HistoryEntry of the instrument has been
\* appended.
C8_PositionIffBuyEntry ==
    \A t \in Tokens : activePositions[t] # 0 <=> Entries("buy", t) # {}

\* a step puts a new Position of instrument t into the active set
PositionAdded(t) ==
    activePositions'[t] # 0 /\ activePositions'[t] # activePositions[t]
\* a step appends the 'buy' HistoryEntry of the Position it leaves active
BuyAppended(t) ==
    /\ Len(tradingHistory') = Len(tradingHistory) + 1
    /\ SubSeq(tradingHistory', 1, Len(tradingHistory)) = tradingHistory
    /\ LET e == tradingHistory'[Len(tradingHistory')]
           p == positionObjects'[activePositions'[t]]
       IN  /\ e.action = "buy" /\ e.tokenId = t
           /\ activePositions'[t] # 0
           /\ e.orderId = p.orderId /\ e.amount = p.amount /\ e.price = p.price
\* the steps in which a buy fails
BuyFailed ==
    \E t \in Tokens :
        Log("Error executing buy order", t, "ExternalCallFailure") \in lastLog'

\* C8 amended: a step puts a Position into the active set exactly when it
\* appends the Position's 'buy' HistoryEntry, every Position of the active
\* set has its 'buy' HistoryEntry, and a buy whose order-book read or order
\* submission fails changes neither positions nor history.  (The entry
\* stays when the position is later sold or replaced.)
C8_BuyCommitsAtomically ==
    [][/\ \A t \in Tokens :
             /\ PositionAdded(t) <=> BuyAppended(t)
             /\ activePositions'[t] # 0 =>
                   \E i \in 1 .. Len(tradingHistory') :
                       /\ tradingHistory'[i].action = "buy"
                       /\ tradingHistory'[i].tokenId = t
                       /\ tradingHistory'[i].orderId = activePositions'[t]
       /\ BuyFailed => UNCHANGED << ActiveSet, tradingHistory >>]_vars

C8_BuyRecorded ==
    \E t \in Tokens :
        /\ Log("Buy order executed", t, "") \in lastLog
        /\ activePositions[t] # 0
        /\ Entries("buy", t) # {}

\* C9: the step in which a buy finds no ask submits no order, creates no
\* Position, appends no HistoryEntry, and ends the buy: nothing of it stays
\* in flight to ask again.
C9_NoAskAbandonsBuy ==
    [][\A t \in Tokens :
          Log("No asks available for buy order", t, "") \in lastLog' =>
             /\ UNCHANGED << ActiveSet, tradingHistory >>
             /\ NewTasks = {}
             /\ \E k \in Suspended("buy", "book") :
                   k.tokenId = t /\ tasks' = Without(k)]_vars

C9_NoAskFound ==
    \E t \in Tokens : Log("No asks available for buy order", t, "") \in lastLog

\* the error of a sell of instrument t reaches the caller: the CLI reports
\* it, or, for a sell nobody awaits, the rejection ends the process
Surfaced(t, error) ==
    \/ Log("cli: Error selling position", t, error) \in lastLog'
    \/ Log("Unhandled rejection", t, error) \in lastLog' /\ exited'

\* C10: a sell for an instrument without a position fails NotFound and one
\* whose order book has no bid fails NoLiquidity; either failure reaches the
\* caller, submits no order and leaves positions and history unchanged.  A
\* sell is started only on an existing position, and a sell that ends at its
\* order-book read has failed and said so.
C10_SellFailsCleanly ==
    [][/\ \A t \in Tokens :
             /\ Log("Error selling position", t, "NotFound") \in lastLog' =>
                   /\ activePositions[t] = 0
                   /\ Surfaced(t, "NotFound")
                   /\ UNCHANGED << ActiveSet, tradingHistory, tasks >>
             /\ Log("Error selling position", t, "NoLiquidity") \in lastLog' =>
                   /\ Surfaced(t, "NoLiquidity")
                   /\ NewTasks = {}
                   /\ UNCHANGED << ActiveSet, tradingHistory >>
       /\ \A k \in NewTasks :
             k.kind = "sell" /\ k.pc = "book" => activePositions[k.tokenId] # 0
       /\ \A k \in Suspended("sell", "book") :
             tasks' = Without(k) =>
                \E e \in {"NoLiquidity", "ExternalCallFailure"} :
                    /\ Log("Error selling position", k.tokenId, e) \in lastLog'
                    /\ Surfaced(k.tokenId, e)
                    /\ UNCHANGED << ActiveSet, tradingHistory >>]_vars

C10_NoLiquidityFound ==
    \E t \in Tokens :
        /\ Log("Error selling position", t, "NoLiquidity") \in lastLog
        /\ activePositions[t] # 0

\* the sell whose order a step settles, if the step settles one
SettledSells == {k \in Suspended("sell", "order") : tasks' = Without(k)}
\* the step appends exactly one entry, of this action, instrument and amount
AppendsOne(action, t, amount) ==
    /\ Len(tradingHistory') = Len(tradingHistory) + 1
    /\ SubSeq(tradingHistory', 1, Len(tradingHistory)) = tradingHistory
    /\ tradingHistory'[Len(tradingHistory')].action = action
    /\ tradingHistory'[Len(tradingHistory')].tokenId = t
    /\ tradingHistory'[Len(tradingHistory')].amount = amount

\* C11: a sell that succeeds decrements the remaining amount of its position
\* by the amount sold, takes the position out of the active set exactly when
\* nothing remains and keeps it there otherwise (no other position leaves the
\* active set), and appends exactly one 'sell' HistoryEntry.
C11_SellSettlesPosition ==
    [][\A t \in Tokens :
          Log("Sell order executed", t, "") \in lastLog' =>
             \E k \in SettledSells :
                LET left == positionObjects[k.position].amount - k.amount
                IN  /\ k.tokenId = t
                    /\ AppendsOne("sell", t, k.amount)
                    /\ left > 0 =>
                          /\ activePositions'[t] = k.position
                          /\ positionObjects'[k.position].amount = left
                    /\ left <= 0 => activePositions'[t] = 0
                    /\ activePositions'[t] # activePositions[t] =>
                          activePositions[t] = k.position]_vars

\* C12: the trading history is append-only: no step shortens it, and every
\* entry stays at its index as it was appended (a sell does not touch the
\* 'buy' entry of the position it decrements).
C12_HistoryAppendOnly ==
    [][/\ Len(tradingHistory') >= Len(tradingHistory)
       /\ SubSeq(tradingHistory', 1, Len(tradingHistory)) = tradingHistory]_vars

\* a position has been sold after its 'buy' entry was appended
C12_SoldAfterBuy ==
    \E i, j \in 1 .. Len(tradingHistory) :
        /\ i < j
        /\ tradingHistory[i].action = "buy"
        /\ tradingHistory[j].action = "sell"
        /\ tradingHistory[j].tokenId = tradingHistory[i].tokenId
        /\ tradingHistory[i].amount = positionSize
        /\ Log("Sell order executed", tradingHistory[j].tokenId, "") \in lastLog

\* the time a position has been held
HeldMs(t) == now - positionObjects[activePositions[t]].buyTime
\* the sells of instrument t that a step starts on behalf of the sweep
SweepSells(t) ==
    {k \in NewTasks : k.kind = "sell" /\ k.tokenId = t /\ k.origin = "auto"}

FailedSweepSells ==
    {k \in BagToSet(tasks) :
        /\ k.kind = "sell" /\ k.origin = "auto"
        /\ tasks' = Without(k)
        /\ \E e \in {"NoLiquidity", "ExternalCallFailure"} :
              Log("Error selling position", k.tokenId, e) \in lastLog'}

\* C14: the step in which a sell queued by the auto-sell sweep fails neither
\* stops the bot nor ends the process, so that later ticks and feed events
\* are still handled.
C14_FailedSweepSellIsIsolated ==
    [][FailedSweepSells # {} => ~ exited' /\ isRunning' = isRunning]_vars

\* C19: the process exits only when no order-book read and no order
\* submission is in flight, so shutdown never cuts off an outbound order
\* request.
C19_ExitWaitsForOrderCalls ==
    [][exited' /\ ~ exited => tasks = EmptyBag]_vars

\* a connection attempt or an established connection ends: the socket's
\* 'close' event, or connect() whose constructor throws
ConnectionFails ==
    \/ WsClose
    \/ ReconnectTimerFires /\ ws' # "connecting"
    \/ Start /\ ws' # "connecting"

\* the bot was started, no socket is alive and no retry is scheduled
GaveUp ==
    /\ isRunning \/ closeRequested
    /\ ws \in {"null", "closed"}
    /\ reconnectTimers = 0

\* C15: a connection failure below the cap leaves the client disconnected
\* with the attempt count one higher and a retry scheduled; a failure at the
\* cap schedules nothing, and from then on the client stays disconnected
\* with no retry pending; it is in that state only with the count at the cap.
C15_RetriesUntilCap ==
    /\ [][ConnectionFails =>
            /\ ~ isConnected'
            /\ IF reconnectAttempts < maxReconnectAttempts
               THEN /\ reconnectAttempts' = reconnectAttempts + 1
                    /\ reconnectTimers' = 1
               ELSE /\ reconnectAttempts' = maxReconnectAttempts
                    /\ reconnectTimers' = 0]_vars
    /\ [][GaveUp => GaveUp' /\ ~ isConnected']_vars
    /\ [](GaveUp => reconnectAttempts = maxReconnectAttempts)

C15_RetriesExhausted ==
    /\ GaveUp
    /\ ~ isConnected
    /\ reconnectAttempts = maxReconnectAttempts
    /\ Log("Max reconnection attempts reached", 0, "") \in lastLog

\* C16: the step in which a socket opens leaves the client connected with
\* the retry count at zero and exactly one request sent on that socket, a
\* subscription with the filters in force; no frame of the socket has been
\* handled by then, so every frame is handled after the subscription.
C16_OpenSubscribesOnce ==
    /\ [][ws = "connecting" /\ ws' = "open" =>
            /\ isConnected'
            /\ reconnectAttempts' = 0
            /\ sent' = << SubscribeRequest(subscriptionFilters') >>
            /\ ~ frameSeen']_vars
    /\ [](frameSeen => sent # << >> /\ sent[1].action = "subscribe")

\* a socket has just opened with filters other than the constructor's
C16_OpenedWithUpdatedFilters ==
    /\ Log("Connected to BoltOdds WebSocket", 0, "") \in lastLog
    /\ isConnected
    /\ subscriptionFilters # DefaultFilters
    /\ sent = << SubscribeRequest(subscriptionFilters) >>

\* C17: once close() has been called the client is disconnected and stays
\* so: no step schedules a reconnection or creates a socket, and a further
\* close() changes nothing in the client.
C17_CloseIsFinal ==
    [][closeRequested =>
          /\ ~ isConnected'
          /\ reconnectTimers' <= reconnectTimers
          /\ ws' = "connecting" => ws = "connecting"
          /\ Stop => UNCHANGED << ws, isConnected, reconnectAttempts,
                                  reconnectTimers, sent >>]_vars

\* C20: when a message is emitted as an event, every handler registered for
\* the event is called exactly once, in registration order and with the
\* data of the message, whether or not a handler before it threw; a throw
\* is logged by emit and does not reach the catch of handleMessage.
C20_EmitIsolatesHandlerFaults ==
    [][\A m \in FeedFrames \ {Malformed} :
          HandleMessage({m}) /\ EventOf(m.action) # "" =>
              /\ Len(delivered') = Len(messageHandlers[EventOf(m.action)])
              /\ \A i \in 1 .. Len(delivered') :
                    /\ delivered'[i].handler
                          = messageHandlers[EventOf(m.action)][i]
                    /\ delivered'[i].event = EventOf(m.action)
                    /\ delivered'[i].data = m.data
                    /\ delivered'[i].threw =>
                          Log("Error in event handler", 0, EventOf(m.action))
                              \in lastLog'
              /\ Log("Error parsing BoltOdds message", 0, "") \notin lastLog'
       ]_vars

\* a handler threw and a handler registered after it was called all the same
C20_CalledAfterThrow ==
    \E i, j \in 1 .. Len(delivered) :
        /\ i < j
        /\ delivered[i].threw
        /\ ~ delivered[j].threw
        /\ Log("Error in event handler", 0, delivered[i].event) \in lastLog

\* C18: once the bot is stopped its client stays disconnected, the stores
\* are no longer written (no feed event is handled, no cleanup runs) and no
\* step starts a buy or a sell; what was in flight may still complete.
C18_StoppedBotIsIdle ==
    [][closeRequested =>
          /\ ~ isConnected'
          /\ UNCHANGED storeVars
          /\ \A k \in NewTasks : k.pc # "book"]_vars

\* the frames handleMessage has no case for: text that does not parse and a
\* message of an unknown type
DroppedFrames == {Malformed, Inbound("hello", NoData)}

\* C21: a frame that does not parse or whose action is not a known tag is
\* dropped: no handler is called, the client (socket, isConnected, retry
\* count, timers, filters, handlers) and the bot's stores, flows and
\* positions are as before, and the socket still takes frames.
C21_BadFrameIsDropped ==
    [][\A m \in DroppedFrames :
          HandleMessage({m}) =>
              /\ delivered' = << >>
              /\ UNCHANGED << ws, isConnected, reconnectAttempts,
                              reconnectTimers, subscriptionFilters,
                              messageHandlers, sent >>
              /\ UNCHANGED << storeVars, ledgerVars, tasks >>
              /\ ws' = "open" /\ ~ exited']_vars

\* a frame was dropped on a connected socket that has handlers to call
C21_FrameDropped ==
    /\ \/ Log("Error parsing BoltOdds message", 0, "") \in lastLog
       \/ Log("Unknown message type received", 0, "hello") \in lastLog
    /\ delivered = << >>
    /\ frameSeen
    /\ isConnected
    /\ ws = "open"
    /\ Len(messageHandlers["gameUpdate"]) > 1

\* C22: every snapshot in the price store has a price strictly between 0
\* and 1 (0 and 100 in percent): a price outside is rejected at ingestion.
C22_StoredPricesInRange ==
    \A i \in 1 .. Len(polymarketData) :
        \A p \in polymarketData[i].data.price : 0 < p /\ p < 100

\* what identifies an event: sport, home team, away team, discriminator
Identity(gameData) ==
    << gameData.sport, gameData.home_team, gameData.away_team, gameData.game >>

\* C23: the key is injective on the four components of an event, so that
\* ingesting the odds of one event leaves the stored snapshot of every
\* other event as it was.
C23_IngestKeepsOtherEvents ==
    [][\A f \in OddsFrames :
          IngestOdds({f}) =>
              \A i \in 1 .. Len(boltOddsData) :
                  Identity(boltOddsData[i].data) # Identity(f) =>
                      boltOddsData'[i] = boltOddsData[i]]_vars

\* the matches the query of this step returned for a stored pair
MatchesOf(i, j) ==
    {k \in 1 .. Len(foundMatches') :
        /\ foundMatches'[k].gameKey = boltOddsData[i].key
        /\ foundMatches'[k].tokenId = polymarketData[j].key}

HasMoneyline(gameData) ==
    \E k \in 1 .. Len(gameData.outcomes) :
        gameData.outcomes[k].outcome_name = "Moneyline"

HasPricedMoneyline(gameData) ==
    \E k \in 1 .. Len(gameData.outcomes) :
        /\ gameData.outcomes[k].outcome_name = "Moneyline"
        /\ gameData.outcomes[k].odds # 0

\* only moneyline outcomes are in the matches, and only stored pairs
OnlyMoneylineMatched ==
    /\ \A k \in 1 .. Len(foundMatches') :
          /\ \A o \in 1 .. Len(foundMatches'[k].boltOdds) :
                foundMatches'[k].boltOdds[o].outcome_name = "Moneyline"
          /\ \E i \in 1 .. Len(boltOddsData), j \in 1 .. Len(polymarketData) :
                k \in MatchesOf(i, j)

\* C24 as stated: a stored pair of an odds snapshot and a price snapshot has
\* a match, and then exactly one, if and only if the sport is NHL and the
\* odds snapshot has a moneyline outcome; only moneyline outcomes are in a
\* match.
C24_MatchIffMoneyline ==
    [][ShowTradingOpportunities =>
          /\ OnlyMoneylineMatched
          /\ \A i \in 1 .. Len(boltOddsData), j \in 1 .. Len(polymarketData) :
                Cardinality(MatchesOf(i, j)) =
                    IF /\ boltOddsData[i].data.sport = "NHL"
                       /\ HasMoneyline(boltOddsData[i].data)
                    THEN 1 ELSE 0]_vars

\* C24 amended: the moneyline outcome must carry odds; an outcome whose
\* odds are missing is passed over, and a snapshot with no other moneyline
\* outcome has no match.
C24_MatchIffPricedMoneyline ==
    [][ShowTradingOpportunities =>
          /\ OnlyMoneylineMatched
          /\ \A i \in 1 .. Len(boltOddsData), j \in 1 .. Len(polymarketData) :
                Cardinality(MatchesOf(i, j)) =
                    IF /\ boltOddsData[i].data.sport = "NHL"
                       /\ HasPricedMoneyline(boltOddsData[i].data)
                    THEN 1 ELSE 0]_vars

\* the game with three outcomes is matched with both instruments on its two
\* moneyline outcomes; the game whose moneyline has no odds is not matched
C24_MatchedBesideUnpriced ==
    /\ \E i \in 1 .. Len(boltOddsData) : boltOddsData[i].data = FrameNoOdds
    /\ \E i \in 1 .. Len(boltOddsData) : boltOddsData[i].data = FrameAHigh
    /\ Len(polymarketData) = 2
    /\ Len(foundMatches) = 2
    /\ \A k \in 1 .. 2 : Len(foundMatches[k].boltOdds) = 2

\* the edge of outcome o of a match
EdgeOf(c, o) == OutcomeValue(c.boltOdds[o], c.price)

\* C25: for a match whose price is a valid one, calculateValue returns a
\* value exactly when some outcome's edge exceeds the threshold; the value
\* is then the greatest edge of all outcomes, and the outcome reported is
\* the first one in order that has it.
C25_BestEdgeFirstOfTies ==
    [][ShowTradingOpportunities =>
          \A k \in 1 .. Len(foundMatches') :
              LET c == foundMatches'[k]
                  va == foundValues'[k]
                  outs == 1 .. Len(c.boltOdds)
              IN  c.hasDecimalOdds =>
                    IF \E o \in outs : ValueAbove(EdgeOf(c, o), valueThreshold)
                    THEN /\ va.found
                         /\ ValueAbove(va.value, valueThreshold)
                         /\ \A o \in outs : ~ ValueGreater(EdgeOf(c, o), va.value)
                         /\ \E o \in outs :
                               /\ c.boltOdds[o] = va.outcome
                               /\ EdgeOf(c, o) = va.value
                               /\ \A n \in 1 .. (o - 1) :
                                     ValueGreater(va.value, EdgeOf(c, n))
                    ELSE ~ va.found]_vars

\* two outcomes tie for the best edge behind a smaller one and the first of
\* the two is reported, while another match has no edge above the threshold
C25_TieAndNoValue ==
    \E k, n \in 1 .. Len(foundMatches) :
        /\ Len(foundMatches[k].boltOdds) = 3
        /\ foundValues[k].found
        /\ foundValues[k].outcome.outcome_target = "EDM"
        /\ foundMatches[n].hasDecimalOdds
        /\ ~ foundValues[n].found

\* the opportunities on display whose edge is pct / 100 and whose tier is c
WithEdge(pct, c) ==
    {k \in 1 .. Len(foundOpportunities) :
        /\ 100 * foundOpportunities[k].valueAnalysis.value[1]
              = pct * foundOpportunities[k].valueAnalysis.value[2]
        /\ foundOpportunities[k].valueAnalysis.confidence = c}

\* C26: the confidence of every opportunity returned is high when its edge
\* is above 0.15, medium when it is above 0.10 and at most 0.15, and low
\* otherwise; so two opportunities of equal edge have the same confidence.
C26_ConfidenceByEdge ==
    [][ShowTradingOpportunities =>
          \A k \in 1 .. Len(foundOpportunities') :
              LET v == foundOpportunities'[k].valueAnalysis.value
                  c == foundOpportunities'[k].valueAnalysis.confidence
              IN  /\ c \in {"high", "medium", "low"}
                  /\ c = "high" <=> 100 * v[1] > 15 * v[2]
                  /\ c = "medium" <=> /\ 100 * v[1] > 10 * v[2]
                                      /\ 100 * v[1] <= 15 * v[2]
                  /\ c = "low" <=> 100 * v[1] <= 10 * v[2]]_vars

\* edges of exactly 0.20, 0.15 and 0.10 are on display as high, medium and
\* low
C26_TiersAtTheirBounds ==
    /\ WithEdge(20, "high") # {}
    /\ WithEdge(15, "medium") # {}
    /\ WithEdge(10, "low") # {}

\* opportunity n on display is match k with its value
IsOpportunityOf(opps, n, ms, vs, k) ==
    /\ vs[k].found
    /\ opps[n].gameKey = ms[k].gameKey
    /\ opps[n].tokenId = ms[k].tokenId
    /\ opps[n].valueAnalysis.value = vs[k].value
    /\ opps[n].valueAnalysis.confidence = vs[k].confidence

\* C27: findTradingOpportunities returns one opportunity for each match
\* that has a value (an edge above the threshold), of whatever confidence,
\* and nothing else, in an order in which no opportunity has a greater edge
\* than the one before it.
C27_OpportunitiesSortedByEdge ==
    [][ShowTradingOpportunities =>
          LET opps == foundOpportunities'
              ms == foundMatches'
              vs == foundValues'
          IN  /\ Len(opps) =
                    Cardinality({k \in 1 .. Len(ms) : vs[k].found})
              /\ \A k \in 1 .. Len(ms) :
                    vs[k].found =>
                        \E n \in 1 .. Len(opps) :
                            IsOpportunityOf(opps, n, ms, vs, k)
              /\ \A n \in 1 .. Len(opps) :
                    \E k \in 1 .. Len(ms) :
                        IsOpportunityOf(opps, n, ms, vs, k)
              /\ \A n \in 1 .. (Len(opps) - 1) :
                    ~ ValueGreater(opps[n + 1].valueAnalysis.value,
                                   opps[n].valueAnalysis.value)]_vars

\* at least three opportunities are on display, a low one among them, and
\* a match found later has a greater edge than one found before it
C27_ReorderedWithLow ==
    /\ Len(foundOpportunities) >= 3
    /\ \E n \in 1 .. Len(foundOpportunities) :
          foundOpportunities[n].valueAnalysis.confidence = "low"
    /\ \E k, n \in 1 .. Len(foundMatches) :
          /\ k < n
          /\ foundValues[k].found
          /\ foundValues[n].found
          /\ ValueGreater(foundValues[n].value, foundValues[k].value)

\* the snapshots of a store that are older than the cutoff of the cleanup
Expired(m) ==
    {i \in 1 .. Len(m) :
        m[i].timestamp < now - CleanupMaxAgeMinutes * 60 * 1000}

\* the snapshots of m that have not expired are those of `after`, in their
\* order and unmodified
KeepsFresh(m, after) ==
    /\ Len(after) = Len(m) - Cardinality(Expired(m))
    /\ \A i \in 1 .. Len(m) :
          i \notin Expired(m) =>
              after[i - Cardinality({j \in Expired(m) : j < i})] = m[i]

\* C28: the cleanup removes from the odds store and from the price store
\* the snapshots ingested before now minus the maximum age, and only those:
\* every other snapshot, one ingested exactly at the cutoff included, is
\* still there and unmodified.
C28_CleanupRemovesExpiredOnly ==
    [][PeriodicCleanup =>
          /\ KeepsFresh(boltOddsData, boltOddsData')
          /\ KeepsFresh(polymarketData, polymarketData')]_vars

\* a cleanup has just run two hours in; each store holds one snapshot, of
\* hour 1, which is exactly at the cutoff and was kept
C28_KeptAtCutoff ==
    /\ Log("Cleared old data", 0, "") \in lastLog
    /\ now = 2 * MsPerHour
    /\ Len(boltOddsData) = 1
    /\ boltOddsData[1].timestamp = now - CleanupMaxAgeMinutes * 60 * 1000
    /\ Len(polymarketData) = 1
    /\ polymarketData[1].timestamp = now - CleanupMaxAgeMinutes * 60 * 1000

\* C29: converting American odds of the test set to decimal odds and back
\* gives the odds one started from.
C29_ConversionRoundTrip ==
    \A k \in 1 .. Len(converted) :
        converted[k].american \in ConversionSamples =>
            converted[k].back = converted[k].american

\* the favourite at -120 went through decimal odds of 11/6 and came back
C29_FavouriteConverted ==
    \E k \in 1 .. Len(converted) :
        /\ converted[k].american = -120
        /\ converted[k].decimal[1] * 6 = converted[k].decimal[2] * 11
        /\ converted[k].back = -120

\* the amount of the fixed policy: a tenth of the portfolio cap, at most $50
FixedAmount ==
    IF maxPositionSize \div 10 < 50 THEN maxPositionSize \div 10 ELSE 50

\* C30: every buy is of the fixed amount, whatever its opportunity and the
\* exposure: the amount a buy flow submits, the amount of the position it
\* records and the amount of its 'buy' history entry.
C30_BuysAreOfFixedSize ==
    /\ [](\A k \in BagToSet(tasks) : k.kind = "buy" => k.amount = FixedAmount)
    /\ [](\A i \in 1 .. Len(tradingHistory) :
              tradingHistory[i].action = "buy" =>
                  tradingHistory[i].amount = FixedAmount)
    /\ [][\A id \in (DOMAIN positionObjects') \ (DOMAIN positionObjects) :
              positionObjects'[id].amount = FixedAmount]_vars

\* a buy of high confidence and a buy of medium confidence and smaller edge
\* are of the same amount, the one made with nothing less than nine
\* positions held; the position of the medium one is recorded with it
C30_SameSizeAtDifferentConfidence ==
    \E i, j \in 1 .. Len(tradingHistory) :
        /\ tradingHistory[i].action = "buy"
        /\ tradingHistory[j].action = "buy"
        /\ tradingHistory[i].valueAnalysis.confidence = "high"
        /\ tradingHistory[j].valueAnalysis.confidence = "medium"
        /\ tradingHistory[i].valueAnalysis.value
               # tradingHistory[j].valueAnalysis.value
        /\ tradingHistory[i].amount = FixedAmount
        /\ tradingHistory[j].amount = FixedAmount
        /\ j >= CapSlots
        /\ tradingHistory[j].orderId \in DOMAIN positionObjects
        /\ positionObjects[tradingHistory[j].orderId].amount = FixedAmount
        /\ positionObjects[tradingHistory[j].orderId].valueAnalysis.confidence
               = "medium"

\* the flows a step ends or moves on
LeftTasks == BagToSet(tasks (-) tasks')
\* the step reports a failed order call of instrument t
OrderCallFailed(t) ==
    \E e \in {"ExternalCallFailure", "NoLiquidity"} :
        \/ Log("Error executing buy order", t, e) \in lastLog'
        \/ Log("Error selling position", t, e) \in lastLog'

\* C31: an order flow submits at most one order: a step submits an order
\* only for one flow that has just read its order book, and once; the step in
\* which the order is answered, and the step in which an order-book read or a
\* submission fails, end the flow, report the failure and submit nothing.
C31_NoResubmission ==
    [][/\ NewOrders # {} =>
             /\ BagCardinality(tasks' (-) tasks) = 1
             /\ BagCardinality(tasks (-) tasks') = 1
             /\ \A k \in NewOrders, b \in LeftTasks :
                    b.pc = "book" /\ k = [b EXCEPT !.pc = "order", !.price = k.price]
       /\ \A k \in LeftTasks :
             k.pc = "order" => NewTasks = {} /\ tasks' = Without(k)
       /\ \A t \in Tokens :
             OrderCallFailed(t) =>
                /\ NewTasks = {}
                /\ \E k \in LeftTasks : k.tokenId = t /\ tasks' = Without(k)]_vars

\* a submission has failed and its flow is gone, while another order of the
\* instrument had been accepted before
C31_FailedAndNotRetried ==
    \E t \in Tokens :
        /\ Log("Error executing buy order", t, "ExternalCallFailure") \in lastLog
        /\ InFlight("buy", t) = {}
        /\ Entries("buy", t) # {}

\* the frames whose action carries an event
EventFrames == {m \in FeedFrames \ {Malformed} : EventOf(m.action) # ""}

\* C32: a frame whose action carries an event is delivered exactly once to
\* each handler registered for the event, in the order of registration, with
\* the frame's data; a ping delivers nothing; and whatever happens to the
\* socket (it closes, a retry is scheduled, a new one is made and opens)
\* leaves the registered handlers as they were.
C32_DeliveredOnceInOrder ==
    [][/\ \A m \in EventFrames :
             HandleMessage({m}) =>
                /\ Len(delivered') = Len(messageHandlers[EventOf(m.action)])
                /\ \A i \in 1 .. Len(delivered') :
                      /\ delivered'[i].handler
                            = messageHandlers[EventOf(m.action)][i]
                      /\ delivered'[i].event = EventOf(m.action)
                      /\ delivered'[i].data = m.data
       /\ HandleMessage({Inbound("ping", NoData)}) => delivered' = << >>
       /\ (ws' # ws \/ reconnectTimers' # reconnectTimers
              \/ reconnectAttempts' # reconnectAttempts)
             => UNCHANGED messageHandlers]_vars

\* a game update is delivered to the bot's handler and to the two registered
\* after it, on a socket opened after the first one was closed
C32_DeliveredAfterReconnection ==
    /\ closeRequested
    /\ ws = "open"
    /\ Len(delivered) = 3
    /\ delivered[1].handler = "bot"
    /\ delivered[1].event = "gameUpdate"
    /\ delivered[2].handler # delivered[3].handler

\* the step runs a matching pass that the state shows: the handler of a
\* feed frame has ingested it, or buys were started
RunsPass ==
    \/ \E i \in 1 .. Len(boltOddsData') :
          Log("Updated BoltOdds data", 0, boltOddsData'[i].key) \in lastLog'
    \/ NewBuys # {}

\* the flows a pass over the two stores `bolt` and `poly` starts
PassStarts(bolt, poly) ==
    StartedBuys(findTradingOpportunities(bolt, poly),
                Evaluated(findTradingOpportunities(bolt, poly), 1), 1)
    (+) (IF autoSellEnabled THEN StartedSells(AutoSellDue) ELSE EmptyBag)

RECURSIVE SumEntries(_, _, _)
SumEntries(action, t, i) ==
    IF i > Len(tradingHistory) THEN 0
    ELSE (IF tradingHistory[i].action = action /\ tradingHistory[i].tokenId = t
          THEN tradingHistory[i].amount ELSE 0)
         + SumEntries(action, t, i + 1)

\* the remaining amount of the active position of a token, 0 if it has none
ActiveAmount(t) ==
    IF activePositions[t] = 0 THEN 0
    ELSE positionObjects[activePositions[t]].amount

\* C34: whenever no order call is in flight, the remaining amount of the
\* active position of every instrument (zero if it has none) is what its
\* 'buy' entries add up to minus what its 'sell' entries add up to.
C34_LedgerMatchesHistory ==
    tasks = EmptyBag =>
        \A t \in Tokens :
            ActiveAmount(t) = SumEntries("buy", t, 1) - SumEntries("sell", t, 1)

\* C35: the active position of an instrument leaves the active set only in
\* the step that settles a sell of that very position, with nothing of it
\* remaining: a sell that was started on an earlier position of the
\* instrument does not remove the position that is active when it completes.
C35_RemovedOnlyByOwnSell ==
    [][\A t \in Tokens :
          activePositions[t] # 0 /\ activePositions'[t] = 0 =>
             \E k \in SettledSells :
                 /\ k.position = activePositions[t]
                 /\ positionObjects[k.position].amount - k.amount <= 0]_vars

\* C36: no sell order is submitted for more than what remains of its
\* position when it is submitted, and no position has a negative remaining
\* amount.
C36_SellWithinRemainingAmount ==
    /\ [][\A k \in NewOrders :
              k.kind = "sell" => k.amount <= positionObjects[k.position].amount]_vars
    /\ [](\A id \in DOMAIN positionObjects : positionObjects[id].amount >= 0)

\* the snapshot holds a price strictly between 0 and 1
HasValidPrice(marketData) ==
    marketData.price # {} /\ \A p \in marketData.price : 0 < p /\ p < 100

\* C37: every opportunity findTradingOpportunities returns is of an
\* instrument whose stored price is present and strictly between 0 and 1.
C37_OpportunityHasValidPrice ==
    \A k \in 1 .. Len(foundOpportunities) :
        \A j \in 1 .. Len(polymarketData) :
            polymarketData[j].key = foundOpportunities[k].tokenId =>
                HasValidPrice(polymarketData[j].data)

\* C38: once the socket has closed, the client is eventually connected
\* again with its attempt counter at zero, unless its attempts have run up
\* to the cap before a connection was accepted.
C38_ReconnectsWithinBudget ==
    (ws = "closed")
        ~> (\/ isConnected /\ ws = "open" /\ reconnectAttempts = 0
            \/ reconnectAttempts = maxReconnectAttempts)

\* the socket of the third retry is connecting, after a drop nobody asked
\* for
C38_RetryConnecting ==
    /\ ws = "connecting"
    /\ reconnectAttempts = 3
    /\ reconnectTimers = 0
    /\ ~ closeRequested

\* C39: updateSubscription sets the fields it is given and keeps the others;
\* connected, it sends one request with the filters as they are then, and
\* disconnected it sends nothing; nothing else writes the filters, and every
\* request sent, the one of a socket that opens included, carries the
\* filters in force when it is sent.
C39_RequestsCarryFiltersInForce ==
    [][/\ \A f \in FilterUpdates :
             UpdateSubscription({f}) =>
                /\ \A key \in DOMAIN subscriptionFilters :
                      subscriptionFilters'[key] =
                          IF key \in DOMAIN f THEN f[key]
                          ELSE subscriptionFilters[key]
                /\ DOMAIN subscriptionFilters' = DOMAIN subscriptionFilters
                /\ sent' = IF isConnected
                           THEN Append(sent, SubscribeRequest(subscriptionFilters'))
                           ELSE sent
       /\ subscriptionFilters' # subscriptionFilters =>
             \E f \in FilterUpdates : UpdateSubscription({f})
       /\ (sent' # sent /\ sent' # << >>) =>
             sent'[Len(sent')] = SubscribeRequest(subscriptionFilters')]_vars

\* both updates were made before this socket opened, and it has sent them
\* with the constructor's other filters
C39_BothUpdatesSentOnOpen ==
    /\ Log("Connected to BoltOdds WebSocket", 0, "") \in lastLog
    /\ sent = << SubscribeRequest(subscriptionFilters) >>
    /\ sent[1].filters.games = << "G1" >>
    /\ sent[1].filters.sportsbooks = << "dk" >>
    /\ sent[1].filters.sports = << "NHL" >>

\* C40: the attempt counter is between 0 and the cap, at most one
\* reconnection timer is pending, and the 'error' event of a failing socket
\* schedules nothing (the 'close' event that follows it does).
C40_CounterAndTimerBounded ==
    /\ [](/\ 0 <= reconnectAttempts
          /\ reconnectAttempts <= maxReconnectAttempts
          /\ reconnectTimers \in {0, 1})
    /\ [][ws' = "closing" => UNCHANGED << reconnectTimers, reconnectAttempts >>]_vars

\* the socket has closed and the last retry the cap allows is pending
C40_LastRetryPending ==
    /\ ws = "closed"
    /\ reconnectAttempts = maxReconnectAttempts
    /\ reconnectTimers = 1
    /\ ~ closeRequested

====
